---- MODULE Spec2Model ----
(***************************************************************************)
(* Calibration point organisation and refinement engine of the tennis      *)
(* tracker: the point store (CalibrationPointManager), the line clusterer  *)
(* and geometric aligner (process_points), the image-guided refiner        *)
(* (find_white_center, refine_point_positions) and the persistence codec   *)
(* (CalibrationPointIO).                                                   *)
(*                                                                         *)
(* Numbers.  Vector2D keeps Python floats.  Pixel coordinates that come    *)
(* from clicks, from process_points and from the refiner are integral, and *)
(* are modelled as integers.  Means, centroids and normalized coordinates  *)
(* are modelled as exact fractions (numerator, denominator); comparisons   *)
(* are made by cross multiplication.  All magnitudes are kept below 2^31.  *)
(***************************************************************************)
EXTENDS Integers, Sequences, FiniteSets, TLC

VARIABLES
    left_key_points,          \* point_manager.py:32   list of points of the left camera
    right_key_points,         \* point_manager.py:33   list of points of the right camera
    left_selected_point_idx,  \* point_manager.py:36
    right_selected_point_idx, \* point_manager.py:37
    active_camera,            \* point_manager.py:40
    total_points,             \* point_manager.py:43
    last,                     \* the last call: its name, arguments, return value, and
                              \* the active list's length and selection when it was made
    emitted,                  \* the points_changed emissions of the last call, in order
    clustering,               \* what the last call computed on its way, when it was
                              \* process_points: its input, the clusters of each stage,
                              \* the moves of the rebalancing
    refinement,               \* what the last call computed on its way, when it was
                              \* refine_point_positions: the rounds of each camera
    file,                     \* the calibration file at the default path: absent,
                              \* or what was last written to it
    settings,                 \* point_io.py:43   the settings the codec reads and sets
    app_state,                \* app_state.py:35-51   the fields of AppState
    image_manager,            \* image_manager.py:60-65   the frames loaded and the current image
    simulation                \* simulation_controller.py:34-48   the timer and the LED display

vars == <<left_key_points, right_key_points, left_selected_point_idx,
          right_selected_point_idx, active_camera, total_points, last, emitted,
          clustering, refinement, file, settings,
          app_state, image_manager, simulation>>

(***************************************************************************)
(* Bounds of the model.                                                    *)
(***************************************************************************)
\* total_points handed to the constructor by the store specification
TotalPoints == 3

\* indices offered to update_point and delete_point run from -1 to total_points
\* (one below and one above every valid index)

Pt(x, y) == [x |-> x, y |-> y]

\* click positions offered to add_point and update_point
Clicks == {Pt(17, 13), Pt(15, 12)}

CameraArgs == {"left", "right", "center"}

Indices == -1 .. total_points

\* body(value), the value computed once
With(value, body(_)) == CHOOSE r \in {body(v) : v \in {value}} : TRUE

Min(a, b) == IF a <= b THEN a ELSE b
Max(a, b) == IF a >= b THEN a ELSE b
Abs(a) == IF a < 0 THEN -a ELSE a

(***************************************************************************)
(* Point store: CalibrationPointManager                                    *)
(***************************************************************************)

\* key_points getter / _get_points_for_current_camera: anything but "left" reads
\* the right camera's list
key_points == IF active_camera = "left" THEN left_key_points ELSE right_key_points

selected_point_idx ==
    IF active_camera = "left" THEN left_selected_point_idx ELSE right_selected_point_idx

\* the name carried by the other list
is_left == active_camera = "left"

\* List operations of Python
ListPop(s, idx) == [k \in 1 .. (Len(s) - 1) |-> IF k <= idx THEN s[k] ELSE s[k + 1]]
ListSet(s, idx, v) == [s EXCEPT ![idx + 1] = v]

no_clustering == [ran |-> FALSE]
no_refinement == [ran |-> FALSE]

Call(op, args, ret) ==
    [op |-> op, args |-> args, ret |-> ret,
     len_before |-> Len(key_points), sel_before |-> selected_point_idx,
     camera |-> active_camera]

\* Writes through the key_points and selected_point_idx setters
SetActive(points, sel) ==
    IF is_left
    THEN /\ left_key_points' = points
         /\ left_selected_point_idx' = sel
         /\ UNCHANGED <<right_key_points, right_selected_point_idx>>
    ELSE /\ right_key_points' = points
         /\ right_selected_point_idx' = sel
         /\ UNCHANGED <<left_key_points, left_selected_point_idx>>

set_active_camera(camera_type) ==
    /\ active_camera' = camera_type
    /\ emitted' = <<camera_type>>
    /\ last' = Call("set_active_camera", <<camera_type>>, TRUE)
    /\ clustering' = no_clustering
         /\ refinement' = no_refinement /\ UNCHANGED <<file, settings, app_state, image_manager, simulation>>
    /\ UNCHANGED <<left_key_points, right_key_points, left_selected_point_idx,
                   right_selected_point_idx, total_points>>

add_point_full_one_more(points) == Len(points) > total_points

\* the capacity test of add_point
add_point_full(points) == Len(points) >= total_points

add_point(x, y) ==
    IF add_point_full(key_points)
    THEN /\ last' = Call("add_point", <<x, y>>, FALSE)
         /\ clustering' = no_clustering
         /\ refinement' = no_refinement /\ UNCHANGED <<file, settings, app_state, image_manager, simulation>>
         /\ emitted' = <<>>
         /\ UNCHANGED <<left_key_points, right_key_points, left_selected_point_idx,
                        right_selected_point_idx, active_camera, total_points>>
    ELSE /\ SetActive(Append(key_points, Pt(x, y)), Len(key_points) + 1 - 1)
         /\ emitted' = <<active_camera>>
         /\ last' = Call("add_point", <<x, y>>, TRUE)
         /\ clustering' = no_clustering
         /\ refinement' = no_refinement /\ UNCHANGED <<file, settings, app_state, image_manager, simulation>>
         /\ UNCHANGED <<active_camera, total_points>>

index_invalid_negative_wraps(idx, points) == idx >= Len(points)

\* the index test of update_point and delete_point
index_invalid(idx, points) == idx < 0 \/ idx >= Len(points)

update_point(idx, x, y) ==
    IF index_invalid(idx, key_points)
    THEN /\ last' = Call("update_point", <<idx, x, y>>, FALSE)
         /\ clustering' = no_clustering
         /\ refinement' = no_refinement /\ UNCHANGED <<file, settings, app_state, image_manager, simulation>>
         /\ emitted' = <<>>
         /\ UNCHANGED <<left_key_points, right_key_points, left_selected_point_idx,
                        right_selected_point_idx, active_camera, total_points>>
    ELSE /\ SetActive(ListSet(key_points, idx, Pt(x, y)), idx)
         /\ emitted' = <<active_camera>>
         /\ last' = Call("update_point", <<idx, x, y>>, TRUE)
         /\ clustering' = no_clustering
         /\ refinement' = no_refinement /\ UNCHANGED <<file, settings, app_state, image_manager, simulation>>
         /\ UNCHANGED <<active_camera, total_points>>

delete_point_selection_kept(sel, new_len) == IF sel > new_len THEN new_len - 1 ELSE sel

\* the selection left by delete_point once the list has new_len entries
delete_point_selection(sel, new_len) == IF sel >= new_len THEN new_len - 1 ELSE sel

delete_point(idx) ==
    IF index_invalid(idx, key_points)
    THEN /\ last' = Call("delete_point", <<idx>>, FALSE)
         /\ clustering' = no_clustering
         /\ refinement' = no_refinement /\ UNCHANGED <<file, settings, app_state, image_manager, simulation>>
         /\ emitted' = <<>>
         /\ UNCHANGED <<left_key_points, right_key_points, left_selected_point_idx,
                        right_selected_point_idx, active_camera, total_points>>
    ELSE /\ SetActive(ListPop(key_points, idx),
                      delete_point_selection(selected_point_idx, Len(key_points) - 1))
         /\ emitted' = <<active_camera>>
         /\ last' = Call("delete_point", <<idx>>, TRUE)
         /\ clustering' = no_clustering
         /\ refinement' = no_refinement /\ UNCHANGED <<file, settings, app_state, image_manager, simulation>>
         /\ UNCHANGED <<active_camera, total_points>>

reset_points ==
    /\ SetActive(<<>>, -1)
    /\ emitted' = <<active_camera>>
    /\ last' = Call("reset_points", <<>>, TRUE)
    /\ clustering' = no_clustering
         /\ refinement' = no_refinement /\ UNCHANGED <<file, settings, app_state, image_manager, simulation>>
    /\ UNCHANGED <<active_camera, total_points>>

\* the key_points setter, given a list of (x, y) tuples: a tuple of another
\* length raises ValueError before anything is assigned
key_points_setter(points) ==
    IF \E i \in 1 .. Len(points) : Len(points[i]) # 2
    THEN /\ last' = Call("key_points", <<points>>, "ValueError")
         /\ emitted' = <<>>
         /\ clustering' = no_clustering
         /\ refinement' = no_refinement /\ UNCHANGED <<file, settings, app_state, image_manager, simulation>>
         /\ UNCHANGED <<left_key_points, right_key_points, left_selected_point_idx,
                        right_selected_point_idx, active_camera, total_points>>
    ELSE /\ SetActive([i \in 1 .. Len(points) |-> Pt(points[i][1], points[i][2])],
                      selected_point_idx)
         /\ emitted' = <<>>
         /\ last' = Call("key_points", <<points>>, "assigned")
         /\ clustering' = no_clustering
         /\ refinement' = no_refinement /\ UNCHANGED <<file, settings, app_state, image_manager, simulation>>
         /\ UNCHANGED <<active_camera, total_points>>

(***************************************************************************)
(* Line clusterer: process_points and its helpers.                         *)
(*                                                                         *)
(* A list of Python becomes a sequence; Python index i is position i + 1.  *)
(* The parallel lists clusters / cluster_indices of the source become one  *)
(* sequence of clusters, each the sequence of the (1-based) positions of   *)
(* its points in points_array, in the order the source holds them.         *)
(* A centroid is the fraction (x / d, y / d); d = 0 stands for the nan     *)
(* that np.mean returns for an empty cluster.                              *)
(***************************************************************************)
RECURSIVE Gcd(_, _)
Gcd(a, b) == IF b = 0 THEN a ELSE Gcd(b, a % b)

Frac(nx, ny, d) ==
    LET g == Gcd(Gcd(Abs(nx), Abs(ny)), d)
    IN  [x |-> nx \div g, y |-> ny \div g, d |-> d \div g]

nan == [x |-> 0, y |-> 0, d |-> 0]

RECURSIVE SumOf(_, _, _)
SumOf(points, idxs, axis) ==
    IF idxs = <<>> THEN 0
    ELSE (IF axis = 0 THEN points[Head(idxs)].x ELSE points[Head(idxs)].y)
         + SumOf(points, Tail(idxs), axis)

\* np.mean(cluster, axis=0)
np_mean(points, idxs) ==
    IF idxs = <<>> THEN nan
    ELSE Frac(SumOf(points, idxs, 0), SumOf(points, idxs, 1), Len(idxs))

\* np.linalg.norm(point - centroid), squared, as the fraction n / (d * d)
Norm2(p, c) == (p.x * c.d - c.x) * (p.x * c.d - c.x) + (p.y * c.d - c.y) * (p.y * c.d - c.y)

\* norm(p - c1) < norm(p - c2), both centroids numbers
NormLess(p, c1, c2) ==
    LET g == Gcd(c1.d, c2.d)
        a == c2.d \div g
        b == c1.d \div g
    IN  Norm2(p, c1) * a * a < Norm2(p, c2) * b * b

\* norm(p1 - c) < norm(p2 - c)
NormLessTo(p1, p2, c) == Norm2(p1, c) < Norm2(p2, c)

\* np.argmin over the distances of p to the centroids: the first nan if there
\* is one, else the first minimum (1-based)
np_argmin(p, centroids) ==
    LET n == Len(centroids)
        nans == {j \in 1 .. n : centroids[j].d = 0}
    IN  IF nans # {}
        THEN CHOOSE j \in nans : \A i \in nans : j <= i
        ELSE CHOOSE j \in 1 .. n :
                 /\ \A i \in 1 .. n : ~NormLess(p, centroids[i], centroids[j])
                 /\ \A i \in 1 .. (j - 1) : NormLess(p, centroids[j], centroids[i])

\* np.argmax over the distances of the cluster's points to its centroid: the
\* first maximum (1-based position in the cluster)
np_argmax(points, idxs, c) ==
    CHOOSE j \in 1 .. Len(idxs) :
        /\ \A i \in 1 .. Len(idxs) : ~NormLessTo(points[idxs[j]], points[idxs[i]], c)
        /\ \A i \in 1 .. (j - 1) : NormLessTo(points[idxs[i]], points[idxs[j]], c)

RECURSIVE MinOf(_, _, _)
MinOf(points, k, axis) ==
    LET v == IF axis = 0 THEN points[k].x ELSE points[k].y
    IN  IF k = 1 THEN v ELSE Min(v, MinOf(points, k - 1, axis))

RECURSIVE MaxOf(_, _, _)
MaxOf(points, k, axis) ==
    LET v == IF axis = 0 THEN points[k].x ELSE points[k].y
    IN  IF k = 1 THEN v ELSE Max(v, MaxOf(points, k - 1, axis))

Range(n) == [i \in 1 .. n |-> i]

\* the three seeds: the mean x of all points, y at 25%, 50% and 75% of the y range
initial_centroids(points) ==
    LET n == Len(points)
        sx == SumOf(points, Range(n), 0)
        y_min == MinOf(points, n, 1)
        y_max == MaxOf(points, n, 1)
    IN  [j \in 1 .. 3 |-> Frac(4 * sx, n * (4 * y_min + j * (y_max - y_min)), 4 * n)]

max_iterations == 100

\* one assignment pass of _cluster_points
assign_points(points, centroids) ==
    LET closest == [i \in 1 .. Len(points) |-> np_argmin(points[i], centroids)]
    IN  [j \in 1 .. Len(centroids) |->
            SelectSeq(Range(Len(points)), LAMBDA i : closest[i] = j)]

\* np.allclose(centroids, new_centroids).  Every coordinate of a centroid is
\* a fraction of denominator at most 4 * total_points and of size below 64,
\* so two of them that differ do so by more than atol + rtol * |b|
\* (1e-8 + 1e-5 * 64): closeness is equality.
np_allclose(centroids, new_centroids) == centroids = new_centroids

\* the centroids _cluster_points computes from an assignment
new_centroids_of(points, centroids, cluster_indices) ==
    [j \in 1 .. Len(centroids) |->
        IF cluster_indices[j] # <<>> THEN np_mean(points, cluster_indices[j])
        ELSE centroids[j]]

RECURSIVE cluster_loop(_, _, _)
cluster_loop(points, centroids, iteration) ==
    With(assign_points(points, centroids), LAMBDA cluster_indices :
    With(new_centroids_of(points, centroids, cluster_indices), LAMBDA new_centroids :
        IF np_allclose(centroids, new_centroids) \/ iteration = max_iterations - 1
        THEN cluster_indices
        ELSE cluster_loop(points, new_centroids, iteration + 1)))

cluster_points(points, initial) == cluster_loop(points, initial, 0)

\* avg_y[i] < avg_y[j] in _sort_clusters; an empty cluster has avg_y = inf
AvgYLess(points, ci, cj) ==
    IF ci = <<>> THEN FALSE
    ELSE IF cj = <<>> THEN TRUE
    ELSE SumOf(points, ci, 1) * Len(cj) < SumOf(points, cj, 1) * Len(ci)

\* np.argsort(avg_y) and the reordering; equal keys keep their order (numpy
\* sorts three elements by insertion)
sort_clusters(points, clusters) ==
    LET k == Len(clusters)
        rank(j) == Cardinality({i \in 1 .. k :
                        \/ AvgYLess(points, clusters[i], clusters[j])
                        \/ (~AvgYLess(points, clusters[j], clusters[i]) /\ i < j)})
    IN  [r \in 1 .. k |-> clusters[CHOOSE j \in 1 .. k : rank(j) = r - 1]]

expected_counts == <<5, 3, 4>>

target_clusters_nonempty(clusters, i) ==
    SelectSeq(Range(Len(clusters)),
              LAMBDA j : j # i /\ clusters[j] # <<>>
                               /\ Len(clusters[j]) < expected_counts[j])

\* the clusters other than i that are still below their expected count
target_clusters(clusters, i) ==
    SelectSeq(Range(Len(clusters)),
              LAMBDA j : j # i /\ Len(clusters[j]) < expected_counts[j])

\* the member of cluster i that _adjust_cluster_sizes takes out
furthest_idx(points, clusters, i) ==
    np_argmax(points, clusters[i], np_mean(points, clusters[i]))

\* the cluster it is moved to, among the targets
closest_other(points, clusters, i, targets) ==
    np_argmin(points[clusters[i][furthest_idx(points, clusters, i)]],
              [t \in 1 .. Len(targets) |-> np_mean(points, clusters[targets[t]])])

RECURSIVE adjust_loop(_, _, _, _)
adjust_loop(points, clusters, i, moves) ==
    IF i > Len(clusters) THEN [clusters |-> clusters, moves |-> moves]
    ELSE IF Len(clusters[i]) > expected_counts[i]
    THEN LET targets == target_clusters(clusters, i)
         IN  IF targets # <<>>
             THEN LET f == furthest_idx(points, clusters, i)
                      target_idx == targets[closest_other(points, clusters, i, targets)]
                      moved == [clusters EXCEPT
                                   ![target_idx] = Append(@, clusters[i][f]),
                                   ![i] = ListPop(@, f - 1)]
                  IN  adjust_loop(points, moved, i,
                          Append(moves, [point |-> clusters[i][f], from |-> i,
                                         to |-> target_idx, before |-> clusters]))
             ELSE adjust_loop(points, clusters, i + 1, moves)
    ELSE adjust_loop(points, clusters, i + 1, moves)

\* _adjust_cluster_sizes: the clusters it leaves and the moves it made
adjust_cluster_sizes(points, clusters) == adjust_loop(points, clusters, 1, <<>>)

\* sorted(cluster, key=x): a stable sort
sort_by_x(points, idxs) ==
    LET n == Len(idxs)
        rank(j) == Cardinality({i \in 1 .. n :
                        \/ points[idxs[i]].x < points[idxs[j]].x
                        \/ (points[idxs[i]].x = points[idxs[j]].x /\ i < j)})
    IN  [r \in 1 .. n |-> idxs[CHOOSE j \in 1 .. n : rank(j) = r - 1]]

RECURSIVE Concat(_)
Concat(seqs) == IF seqs = <<>> THEN <<>> ELSE Head(seqs) \o Concat(Tail(seqs))

\* _sort_points_within_clusters: the positions, in points_array, of the new list
sort_points_within_clusters(points, clusters) ==
    Concat([j \in 1 .. Len(clusters) |-> sort_by_x(points, clusters[j])])

(***************************************************************************)
(* Geometric aligner                                                       *)
(***************************************************************************)
\* int(v) of Python for the fraction n / d, d > 0: truncation toward zero
IntOf(n, d) == IF n >= 0 THEN n \div d ELSE -((-n) \div d)

\* twice np.median(values)
median2(values) ==
    LET n == Len(values)
        rank(j) == Cardinality({i \in 1 .. n :
                        values[i] < values[j] \/ (values[i] = values[j] /\ i < j)})
        nth(r) == values[CHOOSE j \in 1 .. n : rank(j) = r - 1]
    IN  IF n % 2 = 1 THEN 2 * nth((n + 1) \div 2) ELSE nth(n \div 2) + nth(n \div 2 + 1)

\* The pairs <<y, 2 * median_y>> of the model's coordinate range (0 .. 47) for
\* which original_point.y * (1 - 0.3) + median_y * 0.3, evaluated in IEEE-754
\* doubles as Python does, falls just below the integer its exact value is,
\* so that int(new_y) is one less than that integer.
blend_y_low ==
    {<<1, 62>>, <<1, 82>>, <<3, 6>>, <<6, 12>>, <<6, 72>>, <<11, 2>>,
     <<12, 4>>, <<12, 24>>, <<12, 44>>, <<14, 8>>, <<17, 14>>, <<19, 18>>,
     <<22, 4>>, <<23, 6>>, <<23, 26>>, <<23, 46>>, <<24, 8>>, <<24, 28>>,
     <<24, 48>>, <<24, 68>>, <<24, 88>>, <<28, 16>>, <<28, 36>>, <<29, 18>>,
     <<29, 38>>, <<29, 58>>, <<29, 78>>, <<33, 6>>, <<33, 26>>, <<33, 46>>,
     <<34, 8>>, <<34, 28>>, <<34, 48>>, <<38, 16>>, <<38, 36>>, <<39, 18>>,
     <<43, 6>>, <<44, 8>>, <<46, 12>>, <<46, 32>>, <<46, 52>>, <<46, 72>>,
     <<46, 92>>}

\* int(new_y) of _align_line_horizontally, adjustment_factor = 0.3
blend_y(y, m2) ==
    IF (14 * y + 3 * m2) % 20 = 0 /\ <<y, m2>> \in blend_y_low
    THEN IntOf(14 * y + 3 * m2, 20) - 1
    ELSE IntOf(14 * y + 3 * m2, 20)

\* _align_line_horizontally: the list it leaves; "raised" when original_points
\* is too short for the line (IndexError, before any point is written)
align_line_horizontally(kp, indices, original_points) ==
    IF \E k \in 1 .. Len(indices) : indices[k] + 1 > Len(original_points)
    THEN [raised |-> TRUE, points |-> kp]
    ELSE LET y_values == [k \in 1 .. Len(indices) |-> original_points[indices[k] + 1].y]
             m2 == median2(y_values)
             on_line(i) == \E k \in 1 .. Len(indices) : indices[k] + 1 = i
         IN  [raised |-> FALSE,
              points |-> [i \in 1 .. Len(kp) |->
                             IF on_line(i)
                             THEN Pt(kp[i].x, blend_y(original_points[i].y, m2))
                             ELSE kp[i]]]

\* int(new_x) of _align_points_vertically, adjustment_factor = 0.2: the exact
\* value of original_top.x * 0.8 + (mid.x + slope * (top.y - mid.y)) * 0.2 is
\* (4 * ox * dy + mx * dy + (bx - mx) * (ty - my)) / (5 * dy), dy = by - my
blend_x(ox, top, mid, bottom) ==
    LET dy == bottom.y - mid.y
        n == 4 * ox * dy + mid.x * dy + (bottom.x - mid.x) * (top.y - mid.y)
    IN  IF dy > 0 THEN IntOf(n, 5 * dy) ELSE IntOf(-n, -5 * dy)

align_points_vertically(kp, top_idx, mid_idx, bottom_idx, original_points) ==
    LET top_point == kp[top_idx + 1]
        mid_point == kp[mid_idx + 1]
        bottom_point == kp[bottom_idx + 1]
        original_top == original_points[top_idx + 1]
    IN  IF bottom_point.y # mid_point.y
        THEN [kp EXCEPT ![top_idx + 1] =
                 Pt(blend_x(original_top.x, top_point, mid_point, bottom_point), top_point.y)]
        ELSE kp

\* _apply_alignments: the three lines, then the two columns; an IndexError
\* ends it where it occurs, with the points written so far
apply_alignments(kp, original_points) ==
    LET l1 == align_line_horizontally(kp, <<0, 1, 2, 3, 4>>, original_points)
        l2 == align_line_horizontally(l1.points, <<5, 6, 7>>, original_points)
        l3 == align_line_horizontally(l2.points, <<8, 9, 10, 11>>, original_points)
        v1 == align_points_vertically(l3.points, 1, 5, 9, original_points)
        v2 == align_points_vertically(v1, 3, 7, 10, original_points)
    IN  IF l1.raised THEN l1
        ELSE IF l2.raised THEN l2
        ELSE IF l3.raised THEN l3
        ELSE [raised |-> FALSE, points |-> v2]

\* What process_points computes for a list of total_points points: the
\* clusters of each stage, the moves of the rebalancing, the list it stores
\* and the value it returns
process(points) ==
    With(cluster_points(points, initial_centroids(points)), LAMBDA kmeans :
    With(sort_clusters(points, kmeans), LAMBDA sorted :
    With(adjust_cluster_sizes(points, sorted), LAMBDA adjusted :
    With(sort_points_within_clusters(points, adjusted.clusters), LAMBDA order :
    With([i \in 1 .. Len(order) |-> points[order[i]]], LAMBDA new_points :
    With(apply_alignments(new_points, points), LAMBDA aligned :
        [kmeans |-> kmeans, sorted |-> sorted, adjusted |-> adjusted.clusters,
         moves |-> adjusted.moves, order |-> order, new_points |-> new_points,
         stored |-> aligned.points, ret |-> ~aligned.raised]))))))

process_refuses_short(points) == Len(points) < total_points

\* the early return of process_points
process_refuses(points) == Len(points) # total_points

process_points ==
    IF process_refuses(key_points)
    THEN /\ last' = Call("process_points", <<>>, FALSE)
         /\ emitted' = <<>>
         /\ clustering' = no_clustering
         /\ refinement' = no_refinement /\ UNCHANGED <<file, settings, app_state, image_manager, simulation>>
         /\ UNCHANGED <<left_key_points, right_key_points, left_selected_point_idx,
                        right_selected_point_idx, active_camera, total_points>>
    ELSE \E r \in {process(key_points)} :
             /\ SetActive(r.stored, selected_point_idx)
             /\ emitted' = IF r.ret THEN <<active_camera>> ELSE <<>>
             /\ last' = Call("process_points", <<>>, r.ret)
             /\ clustering' = [ran |-> TRUE, original |-> key_points,
                               kmeans |-> r.kmeans, sorted |-> r.sorted,
                               adjusted |-> r.adjusted, moves |-> r.moves,
                               order |-> r.order, new_points |-> r.new_points]
             /\ refinement' = no_refinement /\ UNCHANGED <<file, settings, app_state, image_manager, simulation>>
             /\ UNCHANGED <<active_camera, total_points>>

(***************************************************************************)
(* Images.  An image is its width, its height and what image.pixel         *)
(* returns: grey levels (r = g = b, so that (r + g + b) / 3 is that        *)
(* level).  The frame is black but for court lines, white rows and white   *)
(* columns that run across it, and for single pixels of given levels.      *)
(***************************************************************************)
None == [none |-> TRUE]

Image(width, height, rows, cols, spots) ==
    [width |-> width, height |-> height, rows |-> rows, cols |-> cols, spots |-> spots]

\* brightness of image.pixel(x, y)
brightness_at(image, x, y) ==
    IF y \in image.rows \/ x \in image.cols THEN 255
    ELSE IF <<x, y>> \in DOMAIN image.spots THEN image.spots[<<x, y>>]
    ELSE 0

\* QImage(): the null image
NullImage == Image(0, 0, {}, {}, <<>>)

\* a 640 x 480 frame with two court lines, two pixels thick, that cross at (17, 13)
CourtImage == Image(640, 480, {13, 14}, {17, 18}, <<>>)

\* frame sizes of the refiner specification, and the point the frames are drawn around
FrameSizes == {<<640, 480>>, <<1024, 768>>, <<1920, 1080>>}
Anchor == Pt(100, 100)

\* two lines, two pixels thick, that cross at Anchor + offset
CrossOffsets == {<<0, 0>>, <<2, 1>>, <<-3, 4>>, <<-7, -7>>, <<-13, -12>>, <<11, -11>>}
CrossImage(size, offset) ==
    Image(size[1], size[2],
          {Anchor.y + offset[2], Anchor.y + offset[2] + 1},
          {Anchor.x + offset[1], Anchor.x + offset[1] + 1}, <<>>)

\* a white pixel at Anchor + offset, and a dimmer one four pixels to its right
SpotOffsets == {<<0, 0>>, <<3, -2>>, <<-8, -8>>, <<7, 8>>, <<-16, -16>>}
SpotImage(size, offset) ==
    Image(size[1], size[2], {}, {},
          [xy \in {<<Anchor.x + offset[1], Anchor.y + offset[2]>>,
                   <<Anchor.x + offset[1] + 4, Anchor.y + offset[2]>>} |->
              IF xy[1] = Anchor.x + offset[1] THEN 255 ELSE 190])

\* a frame without a bright pixel
BlankImage(size) == Image(size[1], size[2], {}, {}, <<>>)

RefineImages ==
    {CrossImage(size, offset) : size \in FrameSizes, offset \in CrossOffsets} \cup
    {SpotImage(size, offset) : size \in FrameSizes, offset \in SpotOffsets} \cup
    {BlankImage(size) : size \in FrameSizes}

\* the points of the refiner specification: at the anchor, near it, at the frame's edge
RefinePoints == {Anchor, Pt(103, 98), Pt(3, 3)}

(***************************************************************************)
(* Line-intersection refiner: find_white_center, _find_line_intersection.  *)
(***************************************************************************)
base_size == 11
brightness_threshold == 180

\* the window size find_white_center computes from the image resolution
window_size_of(image) ==
    LET image_size == Max(image.width, image.height)
        scaled == IF image_size > 640 THEN (base_size * image_size) \div 640 ELSE base_size
    IN  IF scaled % 2 = 0 THEN scaled + 1 ELSE scaled

too_close_to_edge_lenient(point, image, half_window) ==
    \/ point.x < half_window
    \/ point.y < half_window
    \/ point.x + half_window > image.width
    \/ point.y + half_window > image.height

\* the edge test of find_white_center
too_close_to_edge(point, image, half_window) ==
    \/ point.x < half_window
    \/ point.y < half_window
    \/ point.x + half_window >= image.width
    \/ point.y + half_window >= image.height

\* floor(k * v / sqrt(d2)) for d2 > 0: the whole part, toward minus infinity,
\* of one coordinate of direction * max_adjustment
FloorScaled(k, v, d2) ==
    LET a == CHOOSE c \in 0 .. k :
                 c * c * d2 <= k * k * v * v /\ (c + 1) * (c + 1) * d2 > k * k * v * v
    IN  IF v >= 0 THEN a
        ELSE IF a * a * d2 = k * k * v * v THEN -a
        ELSE -a - 1

Dist2(p, q) == (q.x - p.x) * (q.x - p.x) + (q.y - p.y) * (q.y - p.y)

\* the clamp of both paths: the position returned for a candidate position.
\* point + direction * max_adjustment has no negative coordinate (the window
\* lies inside the image), so int() rounds it down.
limit_adjustment(point, candidate, max_adjustment) ==
    LET d2 == Dist2(point, candidate)
    IN  IF d2 > max_adjustment * max_adjustment
        THEN Pt(point.x + FloorScaled(max_adjustment, candidate.x - point.x, d2),
                point.y + FloorScaled(max_adjustment, candidate.y - point.y, d2))
        ELSE candidate

max_adjustment_intersection == 15
max_adjustment_centroid == 10

RECURSIVE SumSet(_, _)
SumSet(S, axis) ==
    IF S = {} THEN 0
    ELSE LET e == CHOOSE v \in S : TRUE IN e[axis] + SumSet(S \ {e}, axis)

\* the pixels <<y, x>> of the window (window coordinates) brighter than the threshold
white_pixels(point, image, window_size) ==
    LET half_window == window_size \div 2
    IN  {yx \in (0 .. (window_size - 1)) \X (0 .. (window_size - 1)) :
            brightness_at(image, point.x - half_window + yx[2],
                          point.y - half_window + yx[1]) > brightness_threshold}

\* _find_line_intersection: None, or the position it returns
find_line_intersection(point, image, window_size) ==
    With(white_pixels(point, image, window_size), LAMBDA binary :
        LET half_window == window_size \div 2
            inner == {yx \in binary : /\ 1 <= yx[1] /\ yx[1] <= window_size - 2
                                      /\ 1 <= yx[2] /\ yx[2] <= window_size - 2}
            bit(y, x) == IF <<y, x>> \in binary THEN 255 ELSE 0
            grad_x(yx) == bit(yx[1], yx[2] + 1) - bit(yx[1], yx[2] - 1)
            grad_y(yx) == bit(yx[1] + 1, yx[2]) - bit(yx[1] - 1, yx[2])
            h_points == {yx \in inner : Abs(grad_y(yx)) > Abs(grad_x(yx)) * 2}
            v_points == {yx \in inner : Abs(grad_x(yx)) > Abs(grad_y(yx)) * 2}
        IN  IF Cardinality(binary) < window_size THEN None
            ELSE With(<<h_points, v_points>>, LAMBDA hv :
                IF 2 * Cardinality(hv[1]) < window_size \/ 2 * Cardinality(hv[2]) < window_size
                THEN None
                ELSE LET h_center_y == SumSet(hv[1], 1) \div Cardinality(hv[1])
                         v_center_x == SumSet(hv[2], 2) \div Cardinality(hv[2])
                         intersection == Pt(point.x - half_window + v_center_x,
                                            point.y - half_window + h_center_y)
                     IN  limit_adjustment(point, intersection, max_adjustment_intersection)))

weighted_center_sparse(point, image, window_size) ==
    IF Cardinality(white_pixels(point, image, window_size)) < 2 THEN None ELSE point

\* the brightness-weighted centre of the fallback: None, or the position returned
weighted_center(point, image, window_size) ==
    LET half_window == window_size \div 2
        bright == {<<y, x, brightness_at(image, x, y)>> :
                      y \in (point.y - half_window) .. (point.y + half_window),
                      x \in (point.x - half_window) .. (point.x + half_window)}
    IN  With({b \in bright : b[3] > brightness_threshold}, LAMBDA pixels :
            LET weight_sum == SumSet(pixels, 3)
                weighted_x_sum == SumSet({<<b[1], b[2], b[2] * b[3]>> : b \in pixels}, 3)
                weighted_y_sum == SumSet({<<b[1], b[2], b[1] * b[3]>> : b \in pixels}, 3)
            IN  IF weight_sum = 0 THEN None
                ELSE limit_adjustment(point,
                         Pt(weighted_x_sum \div weight_sum, weighted_y_sum \div weight_sum),
                         max_adjustment_centroid))

\* find_white_center from the edge test on: the path taken and the position returned
white_center(current_point, image) ==
    LET window_size == window_size_of(image)
    IN  IF too_close_to_edge(current_point, image, window_size \div 2)
        THEN [path |-> "none", pos |-> None]
        ELSE With(find_line_intersection(current_point, image, window_size),
             LAMBDA intersection_point :
                 IF intersection_point # None
                 THEN [path |-> "intersection", pos |-> intersection_point]
                 ELSE With(weighted_center(current_point, image, window_size),
                      LAMBDA refined_pos :
                          IF refined_pos = None THEN [path |-> "none", pos |-> None]
                          ELSE [path |-> "centroid", pos |-> refined_pos]))

\* white_center on the click positions of the store specification, evaluated once
court_white_centers == [p \in Clicks |-> white_center(p, CourtImage)]

\* find_white_center: the path taken and the position returned
find_white_center(points, point_idx, image) ==
    IF point_idx < 0 \/ point_idx >= Len(points) THEN [path |-> "none", pos |-> None]
    ELSE LET current_point == points[point_idx + 1]
         IN  IF image = CourtImage /\ current_point \in Clicks
             THEN court_white_centers[current_point]
             ELSE white_center(current_point, image)

(***************************************************************************)
(* refine_point_positions.  A movement is kept in thousandths of a pixel,   *)
(* rounded down; convergence_threshold is given in the same unit.          *)
(***************************************************************************)
RECURSIVE ISqrtIn(_, _, _)
ISqrtIn(n, lo, hi) ==
    IF lo >= hi THEN lo
    ELSE LET mid == (lo + hi + 1) \div 2
         IN  IF mid * mid <= n THEN ISqrtIn(n, mid, hi) ELSE ISqrtIn(n, lo, mid - 1)

\* current_pos.distance_to(refined_pos)
distance_to(p, q) == ISqrtIn(1000000 * Dist2(p, q), 0, 40000)

RECURSIVE SumSeq(_)
SumSeq(s) == IF s = <<>> THEN 0 ELSE Head(s) + SumSeq(Tail(s))

\* one pass of the inner loop over a camera's points: what find_white_center
\* returned for each, the list the updates leave, iteration_refined and
\* iteration_movement
refine_round(points, image) ==
    With([i \in 1 .. Len(points) |-> find_white_center(points, i - 1, image)],
         LAMBDA found :
            [from |-> points,
             found |-> found,
             points |-> [i \in 1 .. Len(points) |->
                            IF found[i].path = "none" THEN points[i] ELSE found[i].pos],
             iteration_refined |-> Cardinality({i \in 1 .. Len(points) : found[i].path # "none"}),
             iteration_movement |->
                 SumSeq([i \in 1 .. Len(points) |->
                            IF found[i].path = "none" THEN 0
                            ELSE distance_to(points[i], found[i].pos)])])

converged_never(round, convergence_threshold) == FALSE

\* avg_movement < convergence_threshold
converged(round, convergence_threshold) ==
    round.iteration_movement < convergence_threshold * Max(round.iteration_refined, 1)

\* the iteration loop of one camera: the rounds it runs, in order
RECURSIVE refine_loop(_, _, _, _, _, _)
refine_loop(points, image, iterations, convergence_threshold, iteration, rounds) ==
    IF iteration >= iterations THEN rounds
    ELSE With(refine_round(points, image), LAMBDA round :
             IF converged(round, convergence_threshold) THEN Append(rounds, round)
             ELSE refine_loop(round.points, image, iterations, convergence_threshold,
                              iteration + 1, Append(rounds, round)))

\* the test that guards a camera's block
image_given(image) == image # None /\ image.width > 0 /\ image.height > 0

\* the rounds of one camera's block
refine_camera(points, image, iterations, convergence_threshold) ==
    IF image_given(image)
    THEN refine_loop(points, image, iterations, convergence_threshold, 0, <<>>)
    ELSE <<>>

\* the list the rounds leave
refined_points(points, rounds) ==
    IF rounds = <<>> THEN points ELSE rounds[Len(rounds)].points

refined_selection_count(sel, rounds) ==
    IF rounds = <<>> THEN sel ELSE Len(rounds[1].points)

\* the selection the rounds leave: update_point selects each point it writes
refined_selection(sel, rounds) ==
    LET wrote == {<<r, i>> \in (1 .. Len(rounds)) \X (1 .. Len(refined_points(<<>>, rounds))) :
                     rounds[r].found[i].path # "none"}
        final == CHOOSE w \in wrote :
                     \A v \in wrote : v[1] < w[1] \/ (v[1] = w[1] /\ v[2] <= w[2])
    IN  IF wrote = {} THEN sel ELSE final[2] - 1

\* left_refined / right_refined: the points refined in the first round
refined_count(rounds) == IF rounds = <<>> THEN 0 ELSE rounds[1].iteration_refined

refine_emissions_unswitched(rounds, camera) ==
    [k \in 1 .. SumSeq([r \in 1 .. Len(rounds) |-> rounds[r].iteration_refined]) |->
        active_camera]

\* the emissions of a camera's block: one per update_point, made while
\* active_camera is that camera
refine_emissions(rounds, camera) ==
    [k \in 1 .. SumSeq([r \in 1 .. Len(rounds) |-> rounds[r].iteration_refined]) |-> camera]

\* active_camera after a camera's block: set to the camera, then restored
camera_after_block(image, before) ==
    IF image_given(image) THEN LET original_active == before IN original_active ELSE before

refine_point_positions(left_image, right_image, iterations, convergence_threshold) ==
    \E left_rounds \in {refine_camera(left_key_points, left_image, iterations,
                                      convergence_threshold)},
       right_rounds \in {refine_camera(right_key_points, right_image, iterations,
                                       convergence_threshold)} :
        /\ left_key_points' = refined_points(left_key_points, left_rounds)
        /\ left_selected_point_idx' = refined_selection(left_selected_point_idx, left_rounds)
        /\ right_key_points' = refined_points(right_key_points, right_rounds)
        /\ right_selected_point_idx' = refined_selection(right_selected_point_idx, right_rounds)
        /\ active_camera' = camera_after_block(right_image,
                                camera_after_block(left_image, active_camera))
        /\ emitted' = refine_emissions(left_rounds, "left") \o
                      refine_emissions(right_rounds, "right")
        /\ last' = Call("refine_point_positions",
                        <<left_image, right_image, iterations, convergence_threshold>>,
                        <<refined_count(left_rounds), refined_count(right_rounds)>>)
        /\ clustering' = no_clustering
        /\ refinement' = [ran |-> TRUE, iterations |-> iterations,
                          convergence_threshold |-> convergence_threshold,
                          left_before |-> left_key_points,
                          right_before |-> right_key_points,
                          left |-> left_rounds, right |-> right_rounds]
        /\ UNCHANGED <<total_points, file, settings, app_state, image_manager, simulation>>

(***************************************************************************)
(* Persistence codec: CalibrationPointIO.                                  *)
(*                                                                         *)
(* A normalized coordinate is the fraction n / d in lowest terms.  A       *)
(* coordinate that load_points returns is such a fraction together with    *)
(* dev, the side on which the double that Python computes lies from it:    *)
(* -1 below, 0 equal, 1 above; the distance is below 1e-9.                 *)
(***************************************************************************)
STANDARD_RESOLUTIONS ==
    [name \in {"1080p", "480p", "280p"} |->
        CASE name = "1080p" -> <<1920, 1080>>
          [] name = "480p" -> <<854, 480>>
          [] name = "280p" -> <<497, 280>>]

DEFAULT_RESOLUTION == "1080p"

\* self.default_file, and a file name without a directory part
default_file == "~/.tennis_tracker/calibration/court_key_points.json"
BareFile == "court_key_points.json"

\* another spelling of the path of the same file, as a caller may pass it
AliasFile == "~/.tennis_tracker/calibration/./court_key_points.json"

\* the settings after _initialize_paths
initial_settings == [calibration_points_file |-> default_file]

\* filepath=None, target_resolution=None, exact_dimensions=None
NoPath == ""
NoResolution == ""
NoDimensions == <<>>

\* os.path.dirname(save_path)
os_path_dirname(path) == IF path = BareFile THEN "" ELSE "~/.tennis_tracker/calibration"

\* the states of the file: absent, cut short by a failed write, or a record
NoFile == [exists |-> FALSE]
PartialFile == [exists |-> TRUE, valid |-> FALSE]
WrittenFile(data) == [exists |-> TRUE, valid |-> TRUE, data |-> data]

\* v / d in lowest terms
Ratio(v, d) == [n |-> v \div Gcd(v, d), d |-> d \div Gcd(v, d)]

\* Vector2D.to_normalized
to_normalized(p, width, height) == [x |-> Ratio(p.x, width), y |-> Ratio(p.y, height)]

\* The normalized coordinates n / d and sizes w of the codec specification
\* for which (v / src) * w, evaluated in IEEE-754 doubles as Python does,
\* v / src = n / d, lies below, and above, the exact product.
float_below ==
    {<<13, 360, 280>>, <<13, 360, 480>>, <<13, 360, 720>>, <<13, 360, 1080>>,
     <<31, 497, 640>>, <<31, 497, 854>>, <<31, 497, 1280>>, <<31, 854, 497>>,
     <<31, 854, 640>>, <<31, 854, 1280>>, <<31, 854, 1920>>,
     <<50, 427, 640>>, <<50, 427, 1280>>, <<1079, 280, 720>>,
     <<1919, 497, 1920>>, <<1919, 1920, 854>>}

float_above ==
    {<<5, 96, 497>>, <<5, 96, 640>>, <<5, 96, 854>>, <<5, 96, 1280>>,
     <<27, 14, 480>>, <<27, 14, 720>>, <<27, 14, 1080>>, <<31, 497, 1920>>,
     <<31, 1920, 497>>, <<31, 1920, 640>>, <<31, 1920, 854>>,
     <<31, 1920, 1280>>, <<31, 1920, 1920>>, <<39, 280, 480>>,
     <<39, 280, 720>>, <<39, 280, 1080>>, <<50, 427, 497>>,
     <<50, 427, 1920>>, <<100, 497, 640>>, <<100, 497, 854>>,
     <<100, 497, 1280>>, <<100, 497, 1920>>, <<1079, 280, 480>>,
     <<1079, 280, 1080>>, <<1079, 480, 280>>, <<1079, 1080, 280>>,
     <<1079, 1080, 480>>, <<1079, 1080, 720>>, <<1919, 497, 640>>,
     <<1919, 497, 854>>, <<1919, 497, 1280>>, <<1919, 854, 497>>,
     <<1919, 854, 640>>, <<1919, 854, 854>>, <<1919, 854, 1280>>,
     <<1919, 854, 1920>>, <<1919, 1920, 497>>, <<1919, 1920, 640>>,
     <<1919, 1920, 1280>>}

float_dev(q, w) ==
    IF <<q.n, q.d, w>> \in float_below THEN -1
    ELSE IF <<q.n, q.d, w>> \in float_above THEN 1
    ELSE 0

\* norm * size
Scaled(q, w) ==
    [n |-> (q.n * w) \div Gcd(q.n * w, q.d), d |-> q.d \div Gcd(q.n * w, q.d),
     dev |-> float_dev(q, w)]

from_normalized_swapped(norm_x, norm_y, width, height) ==
    [x |-> Scaled(norm_x, height), y |-> Scaled(norm_y, width)]

\* Vector2D.from_normalized
from_normalized(norm_x, norm_y, width, height) ==
    [x |-> Scaled(norm_x, width), y |-> Scaled(norm_y, height)]

settings_after_unguarded(filepath, reached) ==
    IF filepath # NoPath /\ filepath # default_file
    THEN [settings EXCEPT !.calibration_points_file = filepath]
    ELSE settings

\* the settings after a call that did, or did not, reach its
\* self.settings.set("calibration_points_file", filepath)
settings_after(filepath, reached) ==
    IF reached /\ filepath # NoPath /\ filepath # default_file
    THEN [settings EXCEPT !.calibration_points_file = filepath]
    ELSE settings

\* the outcomes of the file system offered to save_points
Env == {"ok", "makedirs_fails", "open_fails", "dump_fails"}

\* os.makedirs(os.path.dirname(save_path), exist_ok=True) raises
makedirs_raises(save_path, env) == os_path_dirname(save_path) = "" \/ env = "makedirs_fails"

Returned(success, message) == [outcome |-> "returned", success |-> success, message |-> message]
Raised(exception) == [outcome |-> "raised", success |-> FALSE, message |-> exception]

\* the record save_points writes
save_data(left_points, right_points, resolution) ==
    LET left_complete == Len(left_points) = total_points
        right_complete == Len(right_points) = total_points
        known == resolution \in DOMAIN STANDARD_RESOLUTIONS
        width == STANDARD_RESOLUTIONS[IF known THEN resolution ELSE DEFAULT_RESOLUTION][1]
        height == STANDARD_RESOLUTIONS[IF known THEN resolution ELSE DEFAULT_RESOLUTION][2]
        point_to_normalized_dict(p) == to_normalized(p, width, height)
    IN  [resolution |-> [name |-> resolution, width |-> width, height |-> height],
         left_camera |-> IF left_complete
                         THEN [i \in 1 .. Len(left_points) |->
                                  point_to_normalized_dict(left_points[i])]
                         ELSE <<>>,
         right_camera |-> IF right_complete
                          THEN [i \in 1 .. Len(right_points) |->
                                   point_to_normalized_dict(right_points[i])]
                          ELSE <<>>]

save_points(left_points, right_points, filepath, resolution, env) ==
    LET left_complete == Len(left_points) = total_points
        right_complete == Len(right_points) = total_points
        save_path == IF filepath = NoPath THEN default_file ELSE filepath
        args == <<filepath, resolution, env>>
    IN  /\ IF ~left_complete /\ ~right_complete
           THEN /\ last' = Call("save_points", args,
                                Returned(FALSE, "No complete point sets to save"))
                /\ UNCHANGED file
           ELSE IF makedirs_raises(save_path, env)
           THEN /\ last' = Call("save_points", args, Raised("OSError"))
                /\ UNCHANGED file
           ELSE IF env = "open_fails"
           THEN /\ last' = Call("save_points", args,
                                Returned(FALSE, "Failed to save calibration points"))
                /\ UNCHANGED file
           ELSE IF env = "dump_fails"
           THEN /\ last' = Call("save_points", args,
                                Returned(FALSE, "Failed to save calibration points"))
                /\ file' = PartialFile
           ELSE /\ last' = Call("save_points", args, Returned(TRUE, save_path))
                /\ file' = WrittenFile(save_data(left_points, right_points, resolution))
        /\ UNCHANGED <<app_state, image_manager, simulation>>
        /\ settings' = settings_after(filepath, last'.ret.outcome = "returned"
                                                   /\ last'.ret.success)
        /\ emitted' = <<>>
        /\ clustering' = no_clustering
        /\ refinement' = [ran |-> FALSE]
        /\ UNCHANGED <<left_key_points, right_key_points, left_selected_point_idx,
                       right_selected_point_idx, active_camera, total_points>>

\* os.path.exists(load_path): only the default path is ever written
os_path_exists(load_path) == load_path \in {default_file, AliasFile} /\ file.exists

\* dict.get(key, default)
Get(dict, key, default) == IF key \in DOMAIN dict THEN dict[key] ELSE default

load_dimensions_target_first(data, target_resolution, exact_dimensions) ==
    IF target_resolution \in DOMAIN STANDARD_RESOLUTIONS
    THEN STANDARD_RESOLUTIONS[target_resolution]
    ELSE IF exact_dimensions # NoDimensions THEN exact_dimensions
    ELSE <<Get(Get(data, "resolution", <<>>), "width", 1920),
           Get(Get(data, "resolution", <<>>), "height", 1080)>>

\* the sizes load_points scales to
load_dimensions(data, target_resolution, exact_dimensions) ==
    LET resolution_info == Get(data, "resolution", <<>>)
        src_width == Get(resolution_info, "width", STANDARD_RESOLUTIONS[DEFAULT_RESOLUTION][1])
        src_height == Get(resolution_info, "height", STANDARD_RESOLUTIONS[DEFAULT_RESOLUTION][2])
    IN  IF exact_dimensions # NoDimensions THEN exact_dimensions
        ELSE IF target_resolution \in DOMAIN STANDARD_RESOLUTIONS
        THEN STANDARD_RESOLUTIONS[target_resolution]
        ELSE <<src_width, src_height>>

\* the name load_points reports
load_resolution_name(data, target_resolution, exact_dimensions) ==
    IF exact_dimensions # NoDimensions THEN "custom"
    ELSE IF target_resolution \in DOMAIN STANDARD_RESOLUTIONS THEN target_resolution
    ELSE Get(Get(data, "resolution", <<>>), "name", DEFAULT_RESOLUTION)

\* a camera's array passes the test of load_points: not empty, total_points long
camera_usable(entries) == entries # <<>> /\ Len(entries) = total_points

\* p['x'] or p['y'] raises KeyError for an entry of a usable array
camera_raises(entries) ==
    /\ camera_usable(entries)
    /\ \E i \in 1 .. Len(entries) : ~({"x", "y"} \subseteq DOMAIN entries[i])

\* one camera's list of the result
load_camera(entries, dimensions) ==
    IF camera_usable(entries)
    THEN [i \in 1 .. Len(entries) |->
             from_normalized(entries[i].x, entries[i].y, dimensions[1], dimensions[2])]
    ELSE <<>>

Loaded(success, left_camera, right_camera, message) ==
    [outcome |-> "returned", success |-> success, left_camera |-> left_camera,
     right_camera |-> right_camera, message |-> message]

load_failed(left_camera) ==
    Loaded(FALSE, left_camera, <<>>, <<"Failed to load calibration points", "">>)

load_result(data, target_resolution, exact_dimensions) ==
    LET dimensions == load_dimensions(data, target_resolution, exact_dimensions)
        resolution_name == load_resolution_name(data, target_resolution, exact_dimensions)
        left_points == Get(data, "left_camera", <<>>)
        right_points == Get(data, "right_camera", <<>>)
    IN  IF camera_raises(left_points) THEN load_failed(<<>>)
        ELSE IF camera_raises(right_points)
        THEN load_failed(load_camera(left_points, dimensions))
        ELSE LET left_camera == load_camera(left_points, dimensions)
                 right_camera == load_camera(right_points, dimensions)
                 has_left == Len(left_camera) = total_points
                 has_right == Len(right_camera) = total_points
             IN  Loaded(TRUE, left_camera, right_camera,
                        <<IF has_left /\ has_right THEN "Loaded points for both cameras"
                          ELSE IF has_left THEN "Loaded points for left camera only"
                          ELSE IF has_right THEN "Loaded points for right camera only"
                          ELSE "No valid points found in file", resolution_name>>)

load_points(filepath, target_resolution, exact_dimensions) ==
    LET load_path == IF filepath = NoPath THEN default_file ELSE filepath
        args == <<filepath, target_resolution, exact_dimensions>>
    IN  /\ last' = Call("load_points", args,
                        IF ~os_path_exists(load_path)
                        THEN Loaded(TRUE, <<>>, <<>>, <<"No saved points found", "">>)
                        ELSE IF ~file.valid THEN load_failed(<<>>)
                        ELSE load_result(file.data, target_resolution, exact_dimensions))
        /\ UNCHANGED <<app_state, image_manager, simulation>>
        /\ settings' = settings_after(filepath, os_path_exists(load_path)
                                                   /\ last'.ret.success)
        /\ emitted' = <<>>
        /\ clustering' = no_clustering
        /\ refinement' = [ran |-> FALSE]
        /\ UNCHANGED <<left_key_points, right_key_points, left_selected_point_idx,
                       right_selected_point_idx, active_camera, total_points, file>>

(***************************************************************************)
(* Application state (AppState), image navigation (ImageManager) and the   *)
(* simulation controller.  The signals a call emits are kept in emitted,   *)
(* each with its arguments.                                                *)
(***************************************************************************)
Signal(name, args) == [signal |-> name, args |-> args]

\* AppState.__init__
initial_app_state ==
    [speed |-> 1, azimuth |-> 0, elevation |-> 0, distance |-> 10,
     ball_position |-> <<0, 0, 0>>, playback_state |-> "stop",
     current_frame |-> 0, total_frames |-> 0, image_paths |-> <<>>,
     current_image |-> ""]

\* what a call on AppState, ImageManager or the simulation controller leaves alone
StoreUnchanged ==
    /\ clustering' = no_clustering
    /\ refinement' = no_refinement
    /\ UNCHANGED <<left_key_points, right_key_points, left_selected_point_idx,
                   right_selected_point_idx, active_camera, total_points, file, settings>>

value_differs_always(current, value) == TRUE

\* self._speed != value, and the same test of the other setters
value_differs(current, value) == current # value

speed_setter(value) ==
    /\ IF value_differs(app_state.speed, value)
       THEN /\ app_state' = [app_state EXCEPT !.speed = value]
            /\ emitted' = <<Signal("speed_changed", <<value>>)>>
       ELSE /\ UNCHANGED app_state
            /\ emitted' = <<>>
    /\ last' = Call("speed", <<value>>, app_state.speed)
    /\ StoreUnchanged
    /\ UNCHANGED <<image_manager, simulation>>

camera_position_setter(position) ==
    /\ IF \/ value_differs(app_state.azimuth, position[1])
          \/ value_differs(app_state.elevation, position[2])
          \/ value_differs(app_state.distance, position[3])
       THEN /\ app_state' = [app_state EXCEPT !.azimuth = position[1],
                                              !.elevation = position[2],
                                              !.distance = position[3]]
            /\ emitted' = <<Signal("camera_position_changed", position)>>
       ELSE /\ UNCHANGED app_state
            /\ emitted' = <<>>
    /\ last' = Call("camera_position", <<position>>,
                    <<app_state.azimuth, app_state.elevation, app_state.distance>>)
    /\ StoreUnchanged
    /\ UNCHANGED <<image_manager, simulation>>

ball_position_setter(position) ==
    /\ IF value_differs(app_state.ball_position, position)
       THEN /\ app_state' = [app_state EXCEPT !.ball_position = position]
            /\ emitted' = <<Signal("ball_position_changed", position)>>
       ELSE /\ UNCHANGED app_state
            /\ emitted' = <<>>
    /\ last' = Call("ball_position", <<position>>, app_state.ball_position)
    /\ StoreUnchanged
    /\ UNCHANGED <<image_manager, simulation>>

playback_state_setter(state) ==
    /\ IF value_differs(app_state.playback_state, state)
       THEN /\ app_state' = [app_state EXCEPT !.playback_state = state]
            /\ emitted' = <<Signal("playback_state_changed", <<state>>)>>
       ELSE /\ UNCHANGED app_state
            /\ emitted' = <<>>
    /\ last' = Call("playback_state", <<state>>, app_state.playback_state)
    /\ StoreUnchanged
    /\ UNCHANGED <<image_manager, simulation>>

\* the current_frame setter also assigns current_image, whose setter emits
\* without a test, when the frame indexes image_paths
current_frame_setter(frame) ==
    /\ IF value_differs(app_state.current_frame, frame)
       THEN IF 0 <= frame /\ frame < Len(app_state.image_paths)
            THEN /\ app_state' = [app_state EXCEPT
                                     !.current_frame = frame,
                                     !.current_image = app_state.image_paths[frame + 1]]
                 /\ emitted' = <<Signal("current_frame_changed", <<frame>>),
                                 Signal("current_image_changed",
                                        <<app_state.image_paths[frame + 1]>>)>>
            ELSE /\ app_state' = [app_state EXCEPT !.current_frame = frame]
                 /\ emitted' = <<Signal("current_frame_changed", <<frame>>)>>
       ELSE /\ UNCHANGED app_state
            /\ emitted' = <<>>
    /\ last' = Call("current_frame", <<frame>>, app_state.current_frame)
    /\ StoreUnchanged
    /\ UNCHANGED <<image_manager, simulation>>

\* the image_paths setter assigns and emits without a test
image_paths_setter(paths) ==
    /\ app_state' = [app_state EXCEPT !.image_paths = paths]
    /\ emitted' = <<Signal("images_loaded_changed", <<paths>>)>>
    /\ last' = Call("image_paths", <<paths>>, app_state.image_paths)
    /\ StoreUnchanged
    /\ UNCHANGED <<image_manager, simulation>>

\* ImageManager: the left paths of the frames of frames_info.json, frame 1
\* first (none before a load), the current index and the current path
NoFrames == <<>>

\* ImageManager._initialize_state
initial_image_manager ==
    [frames |-> NoFrames, current_image_index |-> 0, current_image_path |-> ""]

\* ImageManager.load_images_from_json of a file whose frames all exist
loaded_image_manager(frames) ==
    [frames |-> frames, current_image_index |-> 0, current_image_path |-> frames[1]]

\* ImageManager.get_total_images
get_total_images == Len(image_manager.frames)

\* ImageManager.get_frame_path(frame_number, "left"): "" for a frame that
\* frames_info does not hold
get_frame_path(frame_number) ==
    IF frame_number \in 1 .. Len(image_manager.frames)
    THEN image_manager.frames[frame_number]
    ELSE ""

\* the index set_current_index goes on with: index % total_images when the
\* index is out of range
index_after_check(index, total_images) ==
    IF 0 <= index /\ index < total_images THEN index ELSE index % total_images

set_current_index(index) ==
    /\ IF get_total_images = 0
       THEN /\ last' = Call("set_current_index", <<index>>, FALSE)
            /\ emitted' = <<>>
            /\ UNCHANGED image_manager
       ELSE LET kept == index_after_check(index, get_total_images)
            IN  /\ image_manager' = [image_manager EXCEPT
                                        !.current_image_index = kept,
                                        !.current_image_path = get_frame_path(kept + 1)]
                /\ emitted' = <<Signal("current_image_changed", <<get_frame_path(kept + 1)>>)>>
                /\ last' = Call("set_current_index", <<index>>, TRUE)
    /\ StoreUnchanged
    /\ UNCHANGED <<app_state, simulation>>

\* SimulationController.__init__: the timer is not active, no LED display is set
initial_simulation == [timer_active |-> FALSE, led_display |-> None]

\* what a call of the controller did: the exception it raised ("None" when it
\* returned) and its calls on the timer
Did(raised, timer_calls) == [raised |-> raised, timer_calls |-> timer_calls]

\* start_simulation calls _init_simulation first, whose first statement,
\* self.app_state.set_ball_position(0, 0, 0), names a method AppState does not
\* have: AttributeError leaves start_simulation before the timer is started
start_simulation ==
    /\ last' = Call("start_simulation", <<>>, Did("AttributeError", <<>>))
    /\ emitted' = <<>>
    /\ StoreUnchanged
    /\ UNCHANGED <<app_state, image_manager, simulation>>

\* stop_simulation stops the timer whatever its state, and resets the LED
\* display when one is set
stop_simulation ==
    /\ simulation' = [simulation EXCEPT !.timer_active = FALSE]
    /\ last' = Call("stop_simulation", <<>>, Did("None", <<"stop">>))
    /\ emitted' = <<>>
    /\ StoreUnchanged
    /\ UNCHANGED <<app_state, image_manager>>

(***************************************************************************)
(* Specification of the point store                                        *)
(***************************************************************************)
Init ==
    /\ left_key_points = <<>>
    /\ right_key_points = <<>>
    /\ left_selected_point_idx = -1
    /\ right_selected_point_idx = -1
    /\ active_camera = "left"
    /\ total_points = TotalPoints
    /\ last = [op |-> "init", args |-> <<>>, ret |-> TRUE,
               len_before |-> 0, sel_before |-> -1, camera |-> "left"]
    /\ emitted = <<>>
    /\ clustering = no_clustering
    /\ refinement = no_refinement
    /\ file = NoFile
    /\ settings = initial_settings
    /\ app_state = initial_app_state
    /\ image_manager = initial_image_manager
    /\ simulation = initial_simulation

\* iterations offered to refine_point_positions
MaxIterations == 2
IterationArgs == 0 .. MaxIterations

\* convergence_threshold offered to refine_point_positions: 2.0, the default
DefaultThreshold == 2000

Next ==
    \/ \E c \in CameraArgs : set_active_camera(c)
    \/ \E p \in Clicks : add_point(p.x, p.y)
    \/ \E idx \in Indices, p \in Clicks : update_point(idx, p.x, p.y)
    \/ \E idx \in Indices : delete_point(idx)
    \/ reset_points
    \/ process_points
    \/ \E left_image \in {None, CourtImage}, right_image \in {None, CourtImage} :
           refine_point_positions(left_image, right_image, MaxIterations, DefaultThreshold)

Spec == Init /\ [][Next]_vars

(***************************************************************************)
(* Properties of the point store (specification Spec)                      *)
(***************************************************************************)

\* C1: no camera's list ever holds more than total_points points, and an
\* add_point made while the active camera's list holds total_points points
\* returns False and changes neither list and neither selection.
C1_CapacityInvariant ==
    [][/\ Len(left_key_points') <= total_points'
       /\ Len(right_key_points') <= total_points'
       /\ (last'.op = "add_point" /\ Len(key_points) >= total_points) =>
              /\ last'.ret = FALSE
              /\ UNCHANGED <<left_key_points, right_key_points,
                             left_selected_point_idx, right_selected_point_idx>>]_vars

\* an add_point refused on a full list
C1_Witness ==
    /\ last.op = "add_point"
    /\ last.ret = FALSE
    /\ last.len_before = total_points
    /\ Len(key_points) = total_points

\* C2: when delete_point(i) succeeds and i was the active camera's selection,
\* the selection becomes min(i, L - 1), L the length after the removal; that
\* is -1 when the list has become empty.
C2_SelectionClamping ==
    (last.op = "delete_point" /\ last.ret = TRUE /\ last.args[1] = last.sel_before) =>
        /\ selected_point_idx = Min(last.args[1], Len(key_points) - 1)
        /\ (Len(key_points) = 0 => selected_point_idx = -1)

\* the selected last point of a list of at least two was deleted
C2_Witness ==
    /\ last.op = "delete_point"
    /\ last.ret = TRUE
    /\ last.args[1] = last.sel_before
    /\ last.args[1] = Len(key_points)
    /\ Len(key_points) >= 1
    /\ selected_point_idx = Len(key_points) - 1

\* C3: in every state reached by add_point, update_point, delete_point,
\* reset_points, process_points, refine_point_positions and set_active_camera,
\* each camera's selection is -1 or an index of that camera's list.
C3_SelectionValid ==
    /\ left_selected_point_idx \in -1 .. (Len(left_key_points) - 1)
    /\ right_selected_point_idx \in -1 .. (Len(right_key_points) - 1)

\* a refinement that moved the selection of a camera it was not active on
C3_Witness ==
    /\ last.op = "refine_point_positions"
    /\ last.ret[2] >= 2
    /\ last.camera = "left"
    /\ right_selected_point_idx = Len(right_key_points) - 1
    /\ refinement.right_before # right_key_points

\* C13: update_point(idx, x, y) and delete_point(idx) with idx < 0 or idx
\* not below the length of the active camera's list return False, leave both
\* lists and both selections as they were and emit nothing; update_point with
\* a valid idx replaces that point only, keeps the length and selects idx.
C13_InvalidIndex ==
    [][/\ (/\ last'.op \in {"update_point", "delete_point"}
           /\ (last'.args[1] < 0 \/ last'.args[1] >= Len(key_points))) =>
              /\ last'.ret = FALSE
              /\ emitted' = <<>>
              /\ UNCHANGED <<left_key_points, right_key_points,
                             left_selected_point_idx, right_selected_point_idx>>
       /\ (/\ last'.op = "update_point"
           /\ last'.args[1] >= 0
           /\ last'.args[1] < Len(key_points)) =>
              /\ last'.ret = TRUE
              /\ Len(key_points') = Len(key_points)
              /\ \A j \in 1 .. Len(key_points) :
                     key_points'[j] = IF j = last'.args[1] + 1
                                      THEN Pt(last'.args[2], last'.args[3])
                                      ELSE key_points[j]
              /\ selected_point_idx' = last'.args[1]]_vars

\* a delete_point refused for the index just past the end of a list with
\* points, which are all still there
C13_Witness ==
    /\ last.op = "delete_point"
    /\ last.ret = FALSE
    /\ last.len_before >= 2
    /\ last.args[1] = last.len_before
    /\ Len(key_points) = last.len_before
    /\ selected_point_idx = last.sel_before
    /\ emitted = <<>>

\* C16: in every reachable state active_camera is "left" or "right",
\* whatever set_active_camera was called with.
C16_ActiveCameraIsLeftOrRight == active_camera \in {"left", "right"}

\* C17: add_point, update_point, delete_point, reset_points and
\* process_points leave the list and the selection of every camera other than
\* the active one as they were, and refine_point_positions leaves the points
\* of a camera it was given no image for as they were.
C17_OtherCameraUntouched ==
    [][/\ last'.op \in {"add_point", "update_point", "delete_point", "reset_points",
                        "process_points"} =>
              /\ active_camera # "left" =>
                     UNCHANGED <<left_key_points, left_selected_point_idx>>
              /\ active_camera # "right" =>
                     UNCHANGED <<right_key_points, right_selected_point_idx>>
       /\ last'.op = "refine_point_positions" =>
              /\ last'.args[1] = None => UNCHANGED left_key_points
              /\ last'.args[2] = None => UNCHANGED right_key_points]_vars

(***************************************************************************)
(* Specification of process_points on complete sets: twelve clicks that    *)
(* form three horizontal bands, in several click orders.                   *)
(***************************************************************************)
\* the calibration tab's TOTAL_POINTS
TOTAL_POINTS == 12

\* the splits of the twelve points among the top, middle and bottom band
Splits == {<<a, b, TOTAL_POINTS - a - b>> : a \in 1 .. 10, b \in 1 .. 10} \cap
          (Nat \X Nat \X (1 .. 10))

\* the vertical gaps between the bands: top to middle, middle to bottom
Gaps == {<<12, 12>>, <<8, 16>>}

\* the rows of a band alternate between y and y + Jitter
Jitters == {0, 1}

\* y of the band's row, and x of its i-th point (i from 0), left to right
BandY(j, gaps) == 4 + (IF j >= 2 THEN gaps[1] ELSE 0) + (IF j >= 3 THEN gaps[2] ELSE 0)
BandX(j, i) == 2 + j + 3 * i

\* the twelve points band by band, each band left to right
BandPoints(split, gaps, jitter) ==
    LET band(j) == [i \in 1 .. split[j] |->
                        Pt(BandX(j, i - 1), BandY(j, gaps) + jitter * ((i - 1) % 2))]
    IN  band(1) \o band(2) \o band(3)

\* click orders: band by band; the reverse; every fifth point
ClickOrders == {"sorted", "reversed", "strided"}

Clicked(points, order) ==
    LET n == Len(points)
    IN  [i \in 1 .. n |->
            CASE order = "sorted" -> points[i]
              [] order = "reversed" -> points[n + 1 - i]
              [] order = "strided" -> points[((5 * (i - 1)) % n) + 1]]

BandInputs ==
    {Clicked(BandPoints(s, g, j), o) : s \in Splits, g \in Gaps, j \in Jitters, o \in ClickOrders}

\* twelve clicks that do not form three bands: all on one row, on two rows,
\* all on one spot
OneRow == [i \in 1 .. TOTAL_POINTS |-> Pt(2 + 3 * (i - 1), 10)]
TwoRows == [i \in 1 .. TOTAL_POINTS |-> Pt(2 + 3 * ((i - 1) % 6), IF i <= 6 THEN 4 ELSE 28)]
OneSpot == [i \in 1 .. TOTAL_POINTS |-> Pt(10, 10)]

DegenerateInputs == {Clicked(p, o) : p \in {OneRow, TwoRows, OneSpot}, o \in ClickOrders}

\* three bands of 5, 3 and 4 points whose columns lean: the middle band lies to
\* the right, the bottom band spreads over the whole width
LeaningBands ==
    <<Pt(2, 4), Pt(8, 4), Pt(10, 4), Pt(30, 4), Pt(40, 4),
      Pt(40, 16), Pt(42, 16), Pt(44, 16),
      Pt(2, 28), Pt(20, 28), Pt(30, 28), Pt(46, 28)>>

LeaningInputs == {Clicked(LeaningBands, o) : o \in ClickOrders}

ProcessInputs == BandInputs \cup DegenerateInputs \cup LeaningInputs

InitProcess ==
    /\ left_key_points \in ProcessInputs
    /\ right_key_points = <<Pt(10, 10), Pt(17, 13)>>
    /\ left_selected_point_idx = 11
    /\ right_selected_point_idx = 1
    /\ active_camera = "left"
    /\ total_points = TOTAL_POINTS
    /\ last = [op |-> "init", args |-> <<>>, ret |-> TRUE,
               len_before |-> 0, sel_before |-> -1, camera |-> "left"]
    /\ emitted = <<>>
    /\ clustering = no_clustering
    /\ refinement = no_refinement
    /\ file = NoFile
    /\ settings = initial_settings
    /\ app_state = initial_app_state
    /\ image_manager = initial_image_manager
    /\ simulation = initial_simulation

NextProcess == last.op = "init" /\ process_points

SpecProcess == InitProcess /\ [][NextProcess]_vars

(***************************************************************************)
(* Properties of process_points (specification SpecProcess)                *)
(***************************************************************************)
RECURSIVE SumY(_, _, _)
SumY(points, from, to) ==
    IF from > to THEN 0 ELSE points[from].y + SumY(points, from + 1, to)

\* C4: for twelve points in three separated bands, however they are split and
\* clicked, process_points stores groups of exactly 5, 3 and 4 points at
\* indices 0-4, 5-7 and 8-11 whose mean y does not decrease from group to group.
C4_GroupsTopToBottom ==
    (clustering.ran /\ clustering.original \in BandInputs) =>
        /\ last.ret = TRUE
        /\ Len(key_points) = TOTAL_POINTS
        /\ \A j \in 1 .. 3 : Len(clustering.adjusted[j]) = expected_counts[j]
        /\ SumY(key_points, 1, 5) * 3 <= SumY(key_points, 6, 8) * 5
        /\ SumY(key_points, 6, 8) * 4 <= SumY(key_points, 9, 12) * 3

\* C5: after process_points returns True the x of the stored points does not
\* decrease within indices 0-4, within 5-7 and within 8-11.
C5_LeftToRight ==
    (clustering.ran /\ last.ret = TRUE) =>
        \A i \in (1 .. 4) \cup (6 .. 7) \cup (9 .. 11) :
            key_points[i].x <= key_points[i + 1].x

\* the clusters of a rebalancing move that are below their expected count,
\* other than the one the point leaves
MoveTargets(m) ==
    {j \in 1 .. 3 : j # m.from /\ Len(m.before[j]) < expected_counts[j]}

\* C9: every point the rebalancing takes out of an over-full cluster is the
\* member farthest from that cluster's centroid, and goes to the cluster with
\* the nearest centroid among the others below their expected count; for
\* bands of 4, 4 and 4 points exactly one point is moved and the sizes
\* become 5, 3 and 4.
C9_Rebalancing ==
    clustering.ran =>
        /\ \A k \in 1 .. Len(clustering.moves) :
               LET m == clustering.moves[k]
                   points == clustering.original
                   centroid == np_mean(points, m.before[m.from])
                   with_centroid == {j \in MoveTargets(m) : m.before[j] # <<>>}
               IN  /\ Len(m.before[m.from]) > expected_counts[m.from]
                   /\ \A i \in 1 .. Len(m.before[m.from]) :
                          Norm2(points[m.before[m.from][i]], centroid)
                              <= Norm2(points[m.point], centroid)
                   /\ m.to \in MoveTargets(m)
                   /\ with_centroid # {} =>
                          /\ m.to \in with_centroid
                          /\ \A j \in with_centroid :
                                 ~NormLess(points[m.point], np_mean(points, m.before[j]),
                                           np_mean(points, m.before[m.to]))
        /\ (\E g \in Gaps, j \in Jitters, o \in ClickOrders :
                clustering.original = Clicked(BandPoints(<<4, 4, 4>>, g, j), o)) =>
               /\ Len(clustering.moves) = 1
               /\ \A j \in 1 .. 3 : Len(clustering.adjusted[j]) = expected_counts[j]

(***************************************************************************)
(* Specification of the refiner: one call of refine_point_positions on     *)
(* frames of three sizes that show a line crossing, bright pixels or       *)
(* nothing near the points.                                                *)
(***************************************************************************)
\* convergence_threshold offered: 1.5, the calibration tab's, and the default
ThresholdArgs == {1500, DefaultThreshold}

RefineInputs == {<<Anchor>>, <<Anchor, Pt(103, 98)>>, <<Pt(3, 3), Anchor>>}

InitRefine ==
    /\ left_key_points \in RefineInputs
    /\ right_key_points = <<Pt(103, 98)>>
    /\ left_selected_point_idx = Len(left_key_points) - 1
    /\ right_selected_point_idx = 0
    /\ active_camera \in {"left", "right"}
    /\ total_points = TOTAL_POINTS
    /\ last = [op |-> "init", args |-> <<>>, ret |-> TRUE,
               len_before |-> 0, sel_before |-> -1, camera |-> "left"]
    /\ emitted = <<>>
    /\ clustering = no_clustering
    /\ refinement = no_refinement
    /\ file = NoFile
    /\ settings = initial_settings
    /\ app_state = initial_app_state
    /\ image_manager = initial_image_manager
    /\ simulation = initial_simulation

NextRefine ==
    /\ last.op = "init"
    /\ \E left_image \in RefineImages \cup {None, NullImage},
          right_image \in {None, CrossImage(<<640, 480>>, <<2, 1>>)},
          iterations \in IterationArgs, convergence_threshold \in ThresholdArgs :
           refine_point_positions(left_image, right_image, iterations, convergence_threshold)

SpecRefine == InitRefine /\ [][NextRefine]_vars

(***************************************************************************)
(* Properties of the refiner (specification SpecRefine)                    *)
(***************************************************************************)
\* the rounds of the last refine_point_positions, both cameras
RefineRounds ==
    IF refinement.ran
    THEN {refinement.left[r] : r \in 1 .. Len(refinement.left)} \cup
         {refinement.right[r] : r \in 1 .. Len(refinement.right)}
    ELSE {}

\* C6: a position find_white_center returns lies at most 15 px from the point
\* when it comes from the line intersection and at most 10 px when it comes
\* from the weighted centre, the truncation to whole pixels included.
C6_BoundedMovement ==
    \A round \in RefineRounds : \A i \in 1 .. Len(round.from) :
        /\ round.found[i].path = "intersection" =>
               Dist2(round.from[i], round.found[i].pos) <= 15 * 15
        /\ round.found[i].path = "centroid" =>
               Dist2(round.from[i], round.found[i].pos) <= 10 * 10

\* rounds run after a round whose average movement was below the threshold
RoundsAfterConvergence(rounds) ==
    {r \in 1 .. (Len(rounds) - 1) :
        rounds[r].iteration_movement <
            refinement.convergence_threshold * Max(rounds[r].iteration_refined, 1)}

\* C7: refine_point_positions with iterations = N returns after at most N
\* rounds per camera, and runs no round after one whose average movement
\* (0 when nothing was refined) is below convergence_threshold.
C7_ConvergenceTermination ==
    refinement.ran =>
        /\ last.op = "refine_point_positions"
        /\ Len(refinement.left) <= refinement.iterations
        /\ Len(refinement.right) <= refinement.iterations
        /\ RoundsAfterConvergence(refinement.left) = {}
        /\ RoundsAfterConvergence(refinement.right) = {}

\* a call with iterations = 2 that ran one round on the left camera, whose
\* refined points moved by less than the threshold, and two on the right
\* camera, whose point moved by more in the first
C7_Witness ==
    /\ refinement.ran
    /\ refinement.iterations = 2
    /\ Len(refinement.left) = 1
    /\ refinement.left[1].iteration_refined >= 1
    /\ Len(refinement.right) = 2
    /\ refinement.right[1].iteration_movement >=
           refinement.convergence_threshold * refinement.right[1].iteration_refined

(***************************************************************************)
(* Specification of the codec: saves and loads of complete and incomplete  *)
(* sets, at every named resolution.                                        *)
(***************************************************************************)
\* pixel coordinates of the codec specification
IOXs == <<0, 31, 100, 1919>>
IOYs == <<0, 39, 540, 1079>>

CompleteA == [i \in 1 .. TOTAL_POINTS |-> Pt(IOXs[((i - 1) % 4) + 1], IOYs[((i - 1) \div 3) + 1])]
CompleteB == [i \in 1 .. TOTAL_POINTS |-> Pt(IOXs[(i % 4) + 1], IOYs[((i - 1) % 4) + 1])]
ThreePoints == <<Pt(31, 39), Pt(100, 540), Pt(0, 0)>>

ResolutionArgs == {"1080p", "480p", "280p", "720p"}

InitIO ==
    /\ left_key_points \in {CompleteA, ThreePoints, <<>>}
    /\ right_key_points \in {CompleteB, ThreePoints}
    /\ left_selected_point_idx = Len(left_key_points) - 1
    /\ right_selected_point_idx = Len(right_key_points) - 1
    /\ active_camera = "right"
    /\ total_points = TOTAL_POINTS
    /\ last = [op |-> "init", args |-> <<>>, ret |-> TRUE,
               len_before |-> 0, sel_before |-> -1, camera |-> "left"]
    /\ emitted = <<>>
    /\ clustering = no_clustering
    /\ refinement = no_refinement
    /\ file = NoFile
    /\ settings = initial_settings
    /\ app_state = initial_app_state
    /\ image_manager = initial_image_manager
    /\ simulation = initial_simulation

NextIO ==
    \/ \E filepath \in {NoPath, BareFile, AliasFile}, resolution \in ResolutionArgs, env \in Env :
           save_points(left_key_points, right_key_points, filepath, resolution, env)
    \/ \E filepath \in {NoPath, BareFile, AliasFile},
          target_resolution \in ResolutionArgs \cup {NoResolution},
          exact_dimensions \in {NoDimensions, <<640, 480>>} :
           load_points(filepath, target_resolution, exact_dimensions)

SpecIO == InitIO /\ [][NextIO]_vars

(***************************************************************************)
(* Properties of the codec (specification SpecIO)                          *)
(***************************************************************************)
\* the points of the store a record holds for a camera, and what was loaded for it
SavedPoints(camera) == IF camera = "left" THEN left_key_points ELSE right_key_points
LoadedPoints(camera) == IF camera = "left" THEN last.ret.left_camera ELSE last.ret.right_camera

\* the sizes asked of the last load_points
TargetDimensions ==
    IF last.args[3] # NoDimensions THEN last.args[3] ELSE STANDARD_RESOLUTIONS[last.args[2]]

\* the fraction loaded is v * to / from, in lowest terms
IsScaled(loaded, v, from, to) ==
    /\ loaded.n = (v * to) \div Gcd(v * to, from)
    /\ loaded.d = from \div Gcd(v * to, from)
    /\ loaded.dev \in {-1, 0, 1}

\* C8: a complete set saved with a named resolution W x H and loaded with a
\* target of W' x H' comes back, in the saved order, as (x * W' / W,
\* y * H' / H) for every point, the value that the two floating-point
\* operations round; loaded at the sizes it was saved with, every coordinate
\* is within 1 px of the original.
C8_LoadScales ==
    (/\ last.op = "load_points"
     /\ last.args[1] = NoPath
     /\ file.exists
     /\ file.valid
     /\ file.data.resolution.name \in DOMAIN STANDARD_RESOLUTIONS
     /\ (last.args[3] # NoDimensions \/ last.args[2] \in DOMAIN STANDARD_RESOLUTIONS)) =>
        \A camera \in {"left", "right"} :
            Len(SavedPoints(camera)) = total_points =>
                /\ last.ret.success
                /\ Len(LoadedPoints(camera)) = total_points
                /\ \A i \in 1 .. total_points :
                       LET saved == SavedPoints(camera)[i]
                           loaded == LoadedPoints(camera)[i]
                           W == STANDARD_RESOLUTIONS[file.data.resolution.name][1]
                           H == STANDARD_RESOLUTIONS[file.data.resolution.name][2]
                       IN  /\ IsScaled(loaded.x, saved.x, W, TargetDimensions[1])
                           /\ IsScaled(loaded.y, saved.y, H, TargetDimensions[2])
                           /\ TargetDimensions = <<W, H>> =>
                                  /\ Abs(loaded.x.n - saved.x * loaded.x.d) < loaded.x.d
                                  /\ Abs(loaded.y.n - saved.y * loaded.y.d) < loaded.y.d

\* a set saved at 1920 x 1080 and loaded at 854 x 480: the point (31, 0)
\* comes back at x = 31 * 854 / 1920 = 13237 / 960
C8_Witness ==
    /\ last.op = "load_points"
    /\ file.exists
    /\ file.valid
    /\ file.data.resolution.name = "1080p"
    /\ last.args = <<NoPath, "480p", NoDimensions>>
    /\ Len(last.ret.left_camera) = total_points
    /\ left_key_points[2] = Pt(31, 0)
    /\ last.ret.left_camera[2].x.n = 13237
    /\ last.ret.left_camera[2].x.d = 960
    /\ last.ret.left_camera[2].y.n = 0

\* C10: save_points succeeds exactly when at least one of the two lists holds
\* total_points points; when neither does it returns failure and leaves the
\* file as it is; when it succeeds the record holds total_points normalized
\* entries for each complete camera and an empty array for each other.
C10_SaveIffComplete ==
    [][last'.op = "save_points" =>
          LET left_complete == Len(left_key_points) = total_points
              right_complete == Len(right_key_points) = total_points
              success == last'.ret.outcome = "returned" /\ last'.ret.success
          IN  /\ success <=> (left_complete \/ right_complete)
              /\ (~left_complete /\ ~right_complete) =>
                     /\ last'.ret.outcome = "returned"
                     /\ file' = file
              /\ success =>
                     /\ file'.exists
                     /\ file'.valid
                     /\ Len(file'.data.left_camera) = IF left_complete THEN total_points ELSE 0
                     /\ Len(file'.data.right_camera) = IF right_complete THEN total_points ELSE 0]_vars

(***************************************************************************)
(* Specification of load_points on the files it may find: no file, a file  *)
(* that does not parse, records with a key, a field or entries missing,    *)
(* records of another resolution.                                          *)
(***************************************************************************)
\* the arrays save_points writes for CompleteA and CompleteB at 1920 x 1080
GoodLeft == [i \in 1 .. TOTAL_POINTS |-> to_normalized(CompleteA[i], 1920, 1080)]
GoodRight == [i \in 1 .. TOTAL_POINTS |-> to_normalized(CompleteB[i], 1920, 1080)]

\* an array with the 'x', or the 'y', of its third entry missing
WithoutX(entries) == [entries EXCEPT ![3] = [y |-> entries[3].y]]
WithoutY(entries) == [entries EXCEPT ![3] = [x |-> entries[3].x]]

FullHD == [name |-> "1080p", width |-> 1920, height |-> 1080]
HD == [name |-> "720p", width |-> 1280, height |-> 720]

\* records as save_points writes them
WellFormedRecords ==
    {[resolution |-> r, left_camera |-> l, right_camera |-> rt] :
        r \in {FullHD, HD}, l \in {GoodLeft, <<>>}, rt \in {GoodRight, <<>>}}

\* records that parse but miss a key or a field, or hold an array of another length
MalformedRecords ==
    {[resolution |-> FullHD, right_camera |-> GoodRight],
     [resolution |-> FullHD, left_camera |-> GoodLeft],
     [left_camera |-> GoodLeft, right_camera |-> GoodRight],
     [resolution |-> [name |-> "480p"], left_camera |-> GoodLeft, right_camera |-> <<>>],
     [resolution |-> FullHD, left_camera |-> SubSeq(GoodLeft, 1, TOTAL_POINTS - 1),
      right_camera |-> GoodRight],
     [resolution |-> FullHD, left_camera |-> GoodLeft,
      right_camera |-> Append(GoodRight, GoodRight[1])],
     [resolution |-> FullHD, left_camera |-> WithoutX(GoodLeft), right_camera |-> GoodRight],
     [resolution |-> FullHD, left_camera |-> GoodLeft, right_camera |-> WithoutY(GoodRight)],
     [resolution |-> HD, left_camera |-> SubSeq(GoodLeft, 1, 3),
      right_camera |-> WithoutX(GoodRight)]}

MalformedFiles == {PartialFile} \cup {WrittenFile(data) : data \in MalformedRecords}

LoadFiles == {NoFile} \cup MalformedFiles \cup {WrittenFile(data) : data \in WellFormedRecords}

TargetArgs == {NoResolution, "480p", "720p"}
DimensionArgs == {NoDimensions, <<640, 480>>}

InitLoad ==
    /\ left_key_points = <<>>
    /\ right_key_points = <<>>
    /\ left_selected_point_idx = -1
    /\ right_selected_point_idx = -1
    /\ active_camera = "left"
    /\ total_points = TOTAL_POINTS
    /\ last = [op |-> "init", args |-> <<>>, ret |-> TRUE,
               len_before |-> 0, sel_before |-> -1, camera |-> "left"]
    /\ emitted = <<>>
    /\ clustering = no_clustering
    /\ refinement = no_refinement
    /\ file \in LoadFiles
    /\ settings = initial_settings
    /\ app_state = initial_app_state
    /\ image_manager = initial_image_manager
    /\ simulation = initial_simulation

NextLoad ==
    \E filepath \in {NoPath, BareFile, AliasFile}, target_resolution \in TargetArgs,
       exact_dimensions \in DimensionArgs :
        load_points(filepath, target_resolution, exact_dimensions)

SpecLoad == InitLoad /\ [][NextLoad]_vars

(***************************************************************************)
(* Properties of load_points (specification SpecLoad)                      *)
(***************************************************************************)
\* the path the last load_points read
LoadPath == IF last.args[1] = NoPath THEN default_file ELSE last.args[1]

\* the camera's array in the file is one load_points can use: the file
\* parses, has the key, and holds total_points entries with an 'x' and a 'y'
ArrayValid(key) ==
    /\ file.exists
    /\ file.valid
    /\ key \in DOMAIN file.data
    /\ Len(file.data[key]) = total_points
    /\ \A i \in 1 .. total_points : {"x", "y"} \subseteq DOMAIN file.data[key][i]

FoundMessages ==
    {"Loaded points for both cameras", "Loaded points for left camera only",
     "Loaded points for right camera only", "No valid points found in file"}

\* C11: load_points on a malformed file (one that does not parse, an entry
\* without its 'x' or 'y', a camera key missing, an array of another length
\* than total_points) returns success, with an empty list for each camera
\* whose array is unusable, the points of each camera whose array is valid,
\* and a message that tells what was found.
C11_MalformedFileLoads ==
    (/\ last.op = "load_points"
     /\ file \in MalformedFiles
     /\ LoadPath \in {default_file, AliasFile}) =>
        /\ last.ret.success
        /\ last.ret.message[1] \in FoundMessages
        /\ Len(last.ret.left_camera) = IF ArrayValid("left_camera") THEN total_points ELSE 0
        /\ Len(last.ret.right_camera) = IF ArrayValid("right_camera") THEN total_points ELSE 0

\* C12: load_points of a path where no file exists returns success, two
\* empty lists and the message "No saved points found", and leaves the
\* settings as they were.
C12_AbsentFileLoads ==
    [][(/\ last'.op = "load_points"
        /\ ~(file.exists /\ last'.args[1] \in {NoPath, default_file, AliasFile})) =>
           /\ last'.ret.outcome = "returned"
           /\ last'.ret.success
           /\ last'.ret.left_camera = <<>>
           /\ last'.ret.right_camera = <<>>
           /\ last'.ret.message[1] = "No saved points found"
           /\ settings' = settings
           /\ file' = file]_vars

\* a load of another spelling of the default path, where no file exists
C12_Witness ==
    /\ last.op = "load_points"
    /\ last.args[1] = AliasFile
    /\ ~file.exists
    /\ last.ret.success
    /\ last.ret.message[1] = "No saved points found"
    /\ settings = initial_settings
    /\ app_state = initial_app_state
    /\ image_manager = initial_image_manager
    /\ simulation = initial_simulation

\* the sizes the last load_points was to scale to, by the stated priority
PrioritySizes ==
    IF last.args[3] # NoDimensions THEN last.args[3]
    ELSE IF last.args[2] \in DOMAIN STANDARD_RESOLUTIONS THEN STANDARD_RESOLUTIONS[last.args[2]]
    ELSE <<file.data.resolution.width, file.data.resolution.height>>

\* C20: load_points multiplies the normalized coordinates by exact_dimensions
\* when given; otherwise by the sizes of target_resolution when it is a
\* registered name; otherwise by the width and height stored in the file.
C20_DimensionPriority ==
    (/\ last.op = "load_points"
     /\ last.ret.success
     /\ file.exists
     /\ file.valid
     /\ LoadPath \in {default_file, AliasFile}
     /\ "resolution" \in DOMAIN file.data
     /\ {"width", "height"} \subseteq DOMAIN file.data.resolution) =>
        \A key \in {"left_camera", "right_camera"} :
            ArrayValid(key) =>
                /\ Len(last.ret[key]) = total_points
                /\ \A i \in 1 .. total_points :
                       /\ IsScaled(last.ret[key][i].x, file.data[key][i].x.n,
                                   file.data[key][i].x.d, PrioritySizes[1])
                       /\ IsScaled(last.ret[key][i].y, file.data[key][i].y.n,
                                   file.data[key][i].y.d, PrioritySizes[2])

\* a load given both a registered target and exact sizes, of a record stored
\* at 1280 x 720: x = 31 / 1920 comes back as 31 * 640 / 1920 = 31 / 3
C20_Witness ==
    /\ last.op = "load_points"
    /\ last.args[2] = "480p"
    /\ last.args[3] = <<640, 480>>
    /\ file.exists
    /\ file.valid
    /\ "resolution" \in DOMAIN file.data
    /\ file.data.resolution = HD
    /\ Len(last.ret.left_camera) = total_points
    /\ last.ret.left_camera[2].x.n = 31
    /\ last.ret.left_camera[2].x.d = 3

(***************************************************************************)
(* Specification of the store when lists are also assigned whole, through  *)
(* the key_points setter, as the calibration tab does with loaded lists    *)
(***************************************************************************)
Tuples(points) == [i \in 1 .. Len(points) |-> <<points[i].x, points[i].y>>]

\* lists of total_points - 1, total_points and total_points + 1 tuples, and
\* a list with a tuple that is no pair
SetterInputs ==
    {Tuples(LeaningBands),
     Tuples(SubSeq(LeaningBands, 1, TOTAL_POINTS - 1)),
     Tuples(Append(LeaningBands, Pt(50, 30))),
     <<<<1, 2, 3>>>>}

InitSetter ==
    /\ left_key_points = <<>>
    /\ right_key_points = <<>>
    /\ left_selected_point_idx = -1
    /\ right_selected_point_idx = -1
    /\ active_camera = "left"
    /\ total_points = TOTAL_POINTS
    /\ last = [op |-> "init", args |-> <<>>, ret |-> TRUE,
               len_before |-> 0, sel_before |-> -1, camera |-> "left"]
    /\ emitted = <<>>
    /\ clustering = no_clustering
    /\ refinement = no_refinement
    /\ file = NoFile
    /\ settings = initial_settings
    /\ app_state = initial_app_state
    /\ image_manager = initial_image_manager
    /\ simulation = initial_simulation

NextSetter ==
    \/ \E c \in CameraArgs : set_active_camera(c)
    \/ \E points \in SetterInputs : key_points_setter(points)
    \/ process_points
    \/ reset_points

SpecSetter == InitSetter /\ [][NextSetter]_vars

(***************************************************************************)
(* Properties of the store with whole-list assignment (SpecSetter)         *)
(***************************************************************************)
\* C14: process_points called while the active camera's list holds fewer, or
\* more, than total_points points returns False, leaves both lists and both
\* selections as they were and emits nothing.
C14_ProcessRefusesIncomplete ==
    [][(last'.op = "process_points" /\ Len(key_points) # total_points) =>
           /\ last'.ret = FALSE
           /\ emitted' = <<>>
           /\ UNCHANGED <<left_key_points, right_key_points,
                          left_selected_point_idx, right_selected_point_idx>>]_vars

\* a process_points refused on a list of total_points + 1 points
C14_Witness ==
    /\ last.op = "process_points"
    /\ last.ret = FALSE
    /\ last.len_before = total_points + 1
    /\ Len(key_points) = total_points + 1
    /\ emitted = <<>>

\* C15: every operation that changes a camera's list (add_point,
\* update_point, delete_point, reset_points, process_points, the updates of
\* refine_point_positions, the assignment of a whole list through the
\* key_points setter) emits a points_changed notification that names the
\* camera whose list changed.
C15_ChangeNotified ==
    [][/\ left_key_points' # left_key_points => \E k \in DOMAIN emitted' : emitted'[k] = "left"
       /\ right_key_points' # right_key_points =>
              \E k \in DOMAIN emitted' : emitted'[k] = "right"]_vars

(***************************************************************************)
(* Resolution detection of the calibration tab, and the save that uses the *)
(* detected name.  The specification starts with the images loaded, their  *)
(* size in last.args, and twelve points clicked inside them; it detects    *)
(* the resolution name and saves with it.                                  *)
(***************************************************************************)
\* abs(v - std) / std <= 0.05
within_tolerance(v, std) == 20 * Abs(v - std) <= std

\* the names of STANDARD_RESOLUTIONS in the order the dict yields them
preset_names == <<"1080p", "480p", "280p">>

\* CalibrationTab._detect_resolution
detect_resolution(resolution) ==
    LET width == resolution[1]
        height == resolution[2]
        matching == {k \in 1 .. Len(preset_names) :
                        /\ within_tolerance(width, STANDARD_RESOLUTIONS[preset_names[k]][1])
                        /\ within_tolerance(height, STANDARD_RESOLUTIONS[preset_names[k]][2])}
    IN  IF matching # {}
        THEN preset_names[CHOOSE k \in matching : \A j \in matching : k <= j]
        ELSE IF height >= 900 THEN "1080p"
        ELSE IF height >= 400 /\ height < 900 THEN "480p"
        ELSE "280p"

\* self.resolution_name = self._detect_resolution(self.left_resolution)
detect_left_resolution ==
    /\ last.op = "images_loaded"
    /\ last' = [op |-> "_detect_resolution", args |-> last.args,
                ret |-> detect_resolution(last.args[1]),
                len_before |-> Len(key_points), sel_before |-> selected_point_idx,
                camera |-> active_camera]
    /\ emitted' = <<>>
    /\ clustering' = no_clustering
    /\ refinement' = no_refinement
    /\ UNCHANGED <<left_key_points, right_key_points, left_selected_point_idx,
                   right_selected_point_idx, active_camera, total_points, file, settings,
                   app_state, image_manager, simulation>>

\* CalibrationTab._save_points: saves both lists under self.resolution_name
tab_save_points ==
    /\ last.op = "_detect_resolution"
    /\ save_points(left_key_points, right_key_points, NoPath, last.ret, "ok")

\* sizes of the images: the presets, sizes within and just outside 5% of
\* them, and common sizes that are no preset
ImageSizes ==
    {<<1920, 1080>>, <<854, 480>>, <<497, 280>>,
     <<2016, 1134>>, <<2017, 1134>>, <<1824, 1026>>, <<1824, 1025>>, <<1900, 1100>>,
     <<896, 504>>, <<897, 480>>, <<812, 456>>, <<854, 505>>,
     <<521, 294>>, <<473, 266>>, <<497, 295>>,
     <<640, 480>>, <<800, 600>>, <<1024, 768>>, <<1280, 720>>, <<1600, 900>>,
     <<1600, 899>>, <<720, 400>>, <<720, 399>>, <<320, 240>>, <<3840, 2160>>, <<160, 120>>}

\* twelve points inside an image of the size: its corners, its centre, its
\* last column and row
PointsInside(size) ==
    [i \in 1 .. TOTAL_POINTS |->
        CASE i % 4 = 1 -> Pt(size[1] - 1, size[2] - 1)
          [] i % 4 = 2 -> Pt(0, 0)
          [] i % 4 = 3 -> Pt(size[1] \div 2, size[2] - 1)
          [] OTHER -> Pt(size[1] - 1, size[2] \div 2)]

PointsNearOrigin(size) ==
    [i \in 1 .. TOTAL_POINTS |-> Pt((i * size[1]) \div 24, (i * size[2]) \div 24)]

InitDetect ==
    /\ \E size \in ImageSizes :
           /\ left_key_points \in {PointsInside(size), PointsNearOrigin(size)}
           /\ right_key_points \in {PointsInside(size), <<Pt(0, 0)>>}
           /\ last = [op |-> "images_loaded", args |-> <<size>>, ret |-> TRUE,
                      len_before |-> 0, sel_before |-> -1, camera |-> "left"]
    /\ left_selected_point_idx = TOTAL_POINTS - 1
    /\ right_selected_point_idx = Len(right_key_points) - 1
    /\ active_camera = "left"
    /\ total_points = TOTAL_POINTS
    /\ emitted = <<>>
    /\ clustering = no_clustering
    /\ refinement = no_refinement
    /\ file = NoFile
    /\ settings = initial_settings
    /\ app_state = initial_app_state
    /\ image_manager = initial_image_manager
    /\ simulation = initial_simulation

NextDetect == detect_left_resolution \/ tab_save_points

SpecDetect == InitDetect /\ [][NextDetect]_vars

(***************************************************************************)
(* Properties of detection and of the saved record (SpecDetect)            *)
(***************************************************************************)
\* the normalized coordinate n / d lies in [0, 1]
InUnitInterval(q) == q.n >= 0 /\ q.d > 0 /\ q.n <= q.d

\* every point of the list lies inside an image of the size
AllInside(points, size) ==
    \A i \in 1 .. Len(points) :
        /\ 0 <= points[i].x /\ points[i].x < size[1]
        /\ 0 <= points[i].y /\ points[i].y < size[2]

\* C18: every coordinate save_points writes lies in [0, 1], when the points
\* of the complete lists lie inside the image they were clicked on and the
\* resolution name is the one detected for that image's size.
C18_SavedCoordinatesNormalized ==
    [][(/\ last.op = "_detect_resolution"
        /\ last'.op = "save_points"
        /\ last'.args[2] = last.ret
        /\ AllInside(left_key_points, last.args[1])
        /\ AllInside(right_key_points, last.args[1])
        /\ last'.ret.success) =>
           \A key \in {"left_camera", "right_camera"} :
               \A i \in 1 .. Len(file'.data[key]) :
                   /\ InUnitInterval(file'.data[key][i].x)
                   /\ InUnitInterval(file'.data[key][i].y)]_vars

\* the presets whose width and height are both within 5% of the size's
PresetsWithin(size) ==
    {name \in DOMAIN STANDARD_RESOLUTIONS :
        /\ 20 * Abs(size[1] - STANDARD_RESOLUTIONS[name][1]) <= STANDARD_RESOLUTIONS[name][1]
        /\ 20 * Abs(size[2] - STANDARD_RESOLUTIONS[name][2]) <= STANDARD_RESOLUTIONS[name][2]}

\* C19: detection returns a preset whose width and height are both within 5%
\* of the given ones when there is one; otherwise "1080p" for a height of at
\* least 900 and "480p" for a height from 400 up to 900; and for a size that
\* matches neither a name that is no preset name.
C19_DetectionTiers ==
    last.op = "_detect_resolution" =>
        LET size == last.args[1]
        IN  IF PresetsWithin(size) # {} THEN last.ret \in PresetsWithin(size)
            ELSE IF size[2] >= 900 THEN last.ret = "1080p"
            ELSE IF size[2] >= 400 THEN last.ret = "480p"
            ELSE last.ret \notin DOMAIN STANDARD_RESOLUTIONS

(***************************************************************************)
(* find_nearest_point on lists that hold points at equal and at different  *)
(* distances from the positions asked about                                *)
(***************************************************************************)
nearest_closer_or_equal(distance2, min_distance2) ==
    min_distance2 < 0 \/ distance2 <= min_distance2

\* distance < min_distance, on the squares of the distances; the square of
\* float('inf') is written -1
nearest_closer(distance2, min_distance2) ==
    min_distance2 < 0 \/ distance2 < min_distance2

\* the loop of find_nearest_point from index i on: nearest_idx and the square
\* of min_distance when it ends
RECURSIVE nearest_scan(_, _, _, _, _)
nearest_scan(points, pos, i, nearest_idx, min_distance2) ==
    IF i >= Len(points) THEN [nearest_idx |-> nearest_idx, min_distance2 |-> min_distance2]
    ELSE IF nearest_closer(Dist2(points[i + 1], pos), min_distance2)
         THEN nearest_scan(points, pos, i + 1, i, Dist2(points[i + 1], pos))
         ELSE nearest_scan(points, pos, i + 1, nearest_idx, min_distance2)

\* min_distance < threshold: math.sqrt is exact on squares and increasing
distance_below(min_distance2, threshold) ==
    min_distance2 >= 0 /\ threshold > 0 /\ min_distance2 < threshold * threshold

nearest_point(points, pos, threshold) ==
    IF points = <<>> THEN -1
    ELSE LET scan == nearest_scan(points, pos, 0, -1, -1)
         IN  IF distance_below(scan.min_distance2, threshold) THEN scan.nearest_idx ELSE -1

find_nearest_point(pos, threshold) ==
    /\ last' = Call("find_nearest_point", <<pos, threshold>>,
                    nearest_point(key_points, pos, threshold))
    /\ emitted' = <<>>
    /\ clustering' = no_clustering
    /\ refinement' = no_refinement
    /\ UNCHANGED <<left_key_points, right_key_points, left_selected_point_idx,
                   right_selected_point_idx, active_camera, total_points, file, settings,
                   app_state, image_manager, simulation>>

\* lists the store can hold: empty, one point, two points at the same
\* distance from (13, 10), the same point twice, a nearer point last
NearLists ==
    {<<>>,
     <<Pt(10, 10)>>,
     <<Pt(10, 10), Pt(16, 10), Pt(13, 14)>>,
     <<Pt(13, 14), Pt(16, 10), Pt(16, 10), Pt(10, 10)>>,
     <<Pt(40, 40), Pt(13, 15), Pt(13, 12)>>}

NearPositions == {Pt(13, 10), Pt(10, 10), Pt(40, 37)}

\* the thresholds: none, the distance of the tied points, one above it, the
\* default of find_nearest_point and the one the calibration tab passes
NearThresholds == {0, 3, 4, 15, 20}

InitNearest ==
    /\ left_key_points \in NearLists
    /\ right_key_points \in NearLists
    /\ left_selected_point_idx = Len(left_key_points) - 1
    /\ right_selected_point_idx = Len(right_key_points) - 1
    /\ active_camera = "left"
    /\ total_points = TOTAL_POINTS
    /\ last = [op |-> "init", args |-> <<>>, ret |-> TRUE,
               len_before |-> 0, sel_before |-> -1, camera |-> "left"]
    /\ emitted = <<>>
    /\ clustering = no_clustering
    /\ refinement = no_refinement
    /\ file = NoFile
    /\ settings = initial_settings
    /\ app_state = initial_app_state
    /\ image_manager = initial_image_manager
    /\ simulation = initial_simulation

NextNearest ==
    \/ \E c \in CameraArgs : set_active_camera(c)
    \/ \E pos \in NearPositions, threshold \in NearThresholds :
           find_nearest_point(pos, threshold)

SpecNearest == InitNearest /\ [][NextNearest]_vars

\* the indices of the points of the list nearer to pos than the threshold
NearerThan(points, pos, threshold) ==
    {i \in 0 .. Len(points) - 1 :
        threshold > 0 /\ Dist2(points[i + 1], pos) < threshold * threshold}

ThreeFrames == <<"LeftCamera/resize/frame_1.jpg", "LeftCamera/resize/frame_2.jpg",
                 "LeftCamera/resize/frame_3.jpg">>

OneFrame == <<"LeftCamera/resize/frame_1.jpg">>

SpeedArgs == {1, 2}
CameraPositionArgs == {<<0, 0, 10>>, <<45, 30, 10>>}
BallPositionArgs == {<<0, 0, 0>>, <<1, 2, 3>>}
PlaybackArgs == {"play", "pause", "stop"}
FrameArgs == {0, 1, 5}
ImagePathArgs == {<<"a.jpg", "b.jpg">>}

\* one below the first index to one above the last index of ThreeFrames
IndexArgs == -1 .. Len(ThreeFrames)

InitApp ==
    /\ left_key_points = <<>>
    /\ right_key_points = <<>>
    /\ left_selected_point_idx = -1
    /\ right_selected_point_idx = -1
    /\ active_camera = "left"
    /\ total_points = TOTAL_POINTS
    /\ last = [op |-> "init", args |-> <<>>, ret |-> TRUE,
               len_before |-> 0, sel_before |-> -1, camera |-> "left"]
    /\ emitted = <<>>
    /\ clustering = no_clustering
    /\ refinement = no_refinement
    /\ file = NoFile
    /\ settings = initial_settings
    /\ app_state = initial_app_state
    /\ image_manager \in {initial_image_manager, loaded_image_manager(ThreeFrames),
                          loaded_image_manager(OneFrame)}
    /\ simulation = initial_simulation

NextApp ==
    \/ \E value \in SpeedArgs : speed_setter(value)
    \/ \E position \in CameraPositionArgs : camera_position_setter(position)
    \/ \E position \in BallPositionArgs : ball_position_setter(position)
    \/ \E state \in PlaybackArgs : playback_state_setter(state)
    \/ \E frame \in FrameArgs : current_frame_setter(frame)
    \/ \E paths \in ImagePathArgs : image_paths_setter(paths)
    \/ \E index \in IndexArgs : set_current_index(index)
    \/ start_simulation
    \/ stop_simulation

SpecApp == InitApp /\ [][NextApp]_vars

(***************************************************************************)
(* Properties of the application state (SpecApp)                           *)
(***************************************************************************)
CheckedSetters == {"speed", "camera_position", "ball_position", "playback_state",
                   "current_frame"}

\* the value of the property the setter belongs to
PropertyValue(op, st) ==
    CASE op = "speed" -> st.speed
      [] op = "camera_position" -> <<st.azimuth, st.elevation, st.distance>>
      [] op = "ball_position" -> st.ball_position
      [] op = "playback_state" -> st.playback_state
      [] op = "current_frame" -> st.current_frame

\* the change signal of the property, carrying the value
ChangeSignal(op, value) ==
    CASE op = "speed" -> Signal("speed_changed", <<value>>)
      [] op = "camera_position" -> Signal("camera_position_changed", value)
      [] op = "ball_position" -> Signal("ball_position_changed", value)
      [] op = "playback_state" -> Signal("playback_state_changed", <<value>>)
      [] op = "current_frame" -> Signal("current_frame_changed", <<value>>)

\* C22: assigning speed, camera_position, ball_position, playback_state or
\* current_frame a value different from the current one stores it and emits
\* the property's change signal exactly once, with the new value; assigning
\* the current value emits nothing and changes nothing.
C22_SettersEmitOnChange ==
    [][last'.op \in CheckedSetters =>
        LET op == last'.op
            value == last'.args[1]
        IN  IF PropertyValue(op, app_state) # value
            THEN /\ PropertyValue(op, app_state') = value
                 /\ Cardinality({k \in 1 .. Len(emitted') :
                        emitted'[k].signal = ChangeSignal(op, value).signal}) = 1
                 /\ \E k \in 1 .. Len(emitted') : emitted'[k] = ChangeSignal(op, value)
            ELSE /\ emitted' = <<>>
                 /\ UNCHANGED <<app_state, image_manager, simulation, left_key_points,
                                right_key_points, left_selected_point_idx,
                                right_selected_point_idx, active_camera, total_points,
                                file, settings>>]_vars

\* current_frame went from another frame to 1 while image paths were
\* loaded: its signal is followed by the one of current_image
C22_Witness ==
    /\ last.op = "current_frame"
    /\ last.args[1] = 1
    /\ last.ret # 1
    /\ app_state.current_frame = 1
    /\ Len(emitted) = 2
    /\ emitted[1] = Signal("current_frame_changed", <<1>>)

\* C23: set_current_index(index) with an index outside [0, total images)
\* returns False, leaves the current index and path as they were and emits
\* nothing; with a valid index it returns True, stores the index and emits
\* current_image_changed with the path of that image.
C23_IndexOutOfRangeRefused ==
    [][last'.op = "set_current_index" =>
        LET index == last'.args[1]
        IN  IF index < 0 \/ index >= Len(image_manager.frames)
            THEN /\ last'.ret = FALSE
                 /\ UNCHANGED image_manager
                 /\ emitted' = <<>>
            ELSE /\ last'.ret = TRUE
                 /\ image_manager'.current_image_index = index
                 /\ emitted' = <<Signal("current_image_changed",
                                        <<image_manager.frames[index + 1]>>)>>]_vars

\* C24: start_simulation while the timer runs and stop_simulation while it
\* does not are no-ops: no call reaches the timer and no state changes.
C24_RepeatedStartStopNoOp ==
    [][/\ (last'.op = "start_simulation" /\ simulation.timer_active) =>
            /\ last'.ret.timer_calls = <<>>
            /\ UNCHANGED <<simulation, app_state, image_manager>>
       /\ (last'.op = "stop_simulation" /\ ~simulation.timer_active) =>
            /\ last'.ret.timer_calls = <<>>
            /\ UNCHANGED <<simulation, app_state, image_manager>>]_vars

(***************************************************************************)
(* Further properties of process_points (SpecProcess)                      *)
(***************************************************************************)
\* the indices, from 1, of the line the index lies on
LineOf(i) == IF i <= 5 THEN <<1, 2, 3, 4, 5>>
             ELSE IF i <= 8 THEN <<6, 7, 8>> ELSE <<9, 10, 11, 12>>

\* C25: after process_points every stored point of a line has the x it had
\* when clustered, but for the column tops at indices 1 and 3, and has
\* y = int(0.7 * y0 + 0.3 * m), y0 being that point's own y before the call
\* and m the median of the y before the call of the points of its line,
\* whatever the order the points were clicked in.
C25_AlignmentUsesOwnPoint ==
    (last.op = "process_points" /\ last.ret = TRUE /\ clustering.ran) =>
        \A i \in 1 .. Len(key_points) :
            LET own(j) == clustering.original[clustering.order[j]]
                line == LineOf(i)
                m2 == median2([k \in 1 .. Len(line) |-> own(line[k]).y])
            IN  /\ key_points[i].y = blend_y(own(i).y, m2)
                /\ i \notin {2, 4} => key_points[i].x = own(i).x

(***************************************************************************)
(* The post-process handler of the calibration tab                         *)
(***************************************************************************)
\* iterations and convergence_threshold (1.5 pixels) of _post_process_points
post_process_iterations == 3
post_process_threshold == 1500

\* self.resolution_name: detected from the left image when the images were
\* loaded, "1080p" before
resolution_name_of(left_pixmap) ==
    IF left_pixmap = None THEN DEFAULT_RESOLUTION
    ELSE detect_resolution(<<left_pixmap.width, left_pixmap.height>>)

\* what process_points leaves of a list and returns for it
processed(points) ==
    IF process_refuses(points) THEN [stored |-> points, ret |-> FALSE]
    ELSE With(process(points), LAMBDA r : [stored |-> r.stored, ret |-> r.ret])

\* CalibrationTab._post_process_points: refine_point_positions when both
\* pixmaps are there, then process_points on the active camera, then
\* _silent_save when either did something
post_process_points(left_pixmap, right_pixmap) ==
    LET both == left_pixmap # None /\ right_pixmap # None
        rounds_of(points, image) ==
            IF both THEN refine_camera(points, image, post_process_iterations,
                                       post_process_threshold)
            ELSE <<>>
    IN  \E left_rounds \in {rounds_of(left_key_points, left_pixmap)},
           right_rounds \in {rounds_of(right_key_points, right_pixmap)} :
        \E aligned \in {processed(IF is_left
                                  THEN refined_points(left_key_points, left_rounds)
                                  ELSE refined_points(right_key_points, right_rounds))} :
            /\ left_key_points' = IF is_left THEN aligned.stored
                                  ELSE refined_points(left_key_points, left_rounds)
            /\ right_key_points' = IF is_left
                                   THEN refined_points(right_key_points, right_rounds)
                                   ELSE aligned.stored
            /\ left_selected_point_idx' = refined_selection(left_selected_point_idx, left_rounds)
            /\ right_selected_point_idx' = refined_selection(right_selected_point_idx, right_rounds)
            /\ emitted' = refine_emissions(left_rounds, "left") \o
                          refine_emissions(right_rounds, "right") \o
                          (IF aligned.ret THEN <<active_camera>> ELSE <<>>)
            /\ last' = Call("_post_process_points", <<left_pixmap, right_pixmap>>,
                            [alignment_applied |-> aligned.ret,
                             left_refined |-> refined_count(left_rounds),
                             right_refined |-> refined_count(right_rounds)])
            /\ file' = IF /\ \/ aligned.ret
                             \/ refined_count(left_rounds) > 0
                             \/ refined_count(right_rounds) > 0
                          /\ \/ Len(left_key_points') = total_points
                             \/ Len(right_key_points') = total_points
                       THEN WrittenFile(save_data(left_key_points', right_key_points',
                                                  resolution_name_of(left_pixmap)))
                       ELSE file
            /\ clustering' = no_clustering
            /\ refinement' = [ran |-> both, iterations |-> post_process_iterations,
                              convergence_threshold |-> post_process_threshold,
                              left_before |-> left_key_points,
                              right_before |-> right_key_points,
                              left |-> left_rounds, right |-> right_rounds]
            /\ UNCHANGED <<active_camera, total_points, settings, app_state,
                           image_manager, simulation>>

\* three bands of 5, 3 and 4 points, far enough from the frame's edge to be refined
PostBands ==
    <<Pt(8, 10), Pt(14, 10), Pt(20, 10), Pt(30, 10), Pt(40, 10),
      Pt(12, 22), Pt(24, 22), Pt(36, 22),
      Pt(8, 34), Pt(18, 34), Pt(28, 34), Pt(40, 34)>>

PostInputs == {Clicked(PostBands, o) : o \in ClickOrders}

\* 640 x 480 frames with a white row and a white column, two pixels thick,
\* near some of the points; a frame without a bright pixel
PostImages ==
    {Image(640, 480, {row, row + 1}, {col, col + 1}, <<>>) :
        row \in {12, 24}, col \in {21, 31}} \cup {BlankImage(<<640, 480>>)}

InitPost ==
    /\ left_key_points \in PostInputs
    /\ right_key_points \in {PostBands, <<Pt(10, 10)>>}
    /\ left_selected_point_idx = Len(left_key_points) - 1
    /\ right_selected_point_idx = Len(right_key_points) - 1
    /\ active_camera \in {"left", "right"}
    /\ total_points = TOTAL_POINTS
    /\ last = [op |-> "init", args |-> <<>>, ret |-> TRUE,
               len_before |-> 0, sel_before |-> -1, camera |-> "left"]
    /\ emitted = <<>>
    /\ clustering = no_clustering
    /\ refinement = no_refinement
    /\ file = NoFile
    /\ settings = initial_settings
    /\ app_state = initial_app_state
    /\ image_manager = initial_image_manager
    /\ simulation = initial_simulation

NextPost ==
    /\ last.op = "init"
    /\ \E left_pixmap \in PostImages \cup {None},
          right_pixmap \in {None, Image(640, 480, {12, 13}, {21, 22}, <<>>)} :
           post_process_points(left_pixmap, right_pixmap)

SpecPost == InitPost /\ [][NextPost]_vars

\* C26: in the post-process flow a camera's points are clustered and aligned
\* before they are refined on the image, so the positions left in the store,
\* and saved, are what the refinement loop returns for the aligned points.
C26_RefinementLast ==
    (last.op = "_post_process_points" /\ refinement.ran) =>
        LET before == IF last.camera = "left" THEN refinement.left_before
                      ELSE refinement.right_before
            image == IF last.camera = "left" THEN last.args[1] ELSE last.args[2]
            aligned == processed(before).stored
            expected == refined_points(aligned,
                            refine_camera(aligned, image, post_process_iterations,
                                          post_process_threshold))
        IN  /\ key_points = expected
            /\ file.exists =>
                   file.data = save_data(IF last.camera = "left" THEN expected
                                         ELSE left_key_points,
                                         IF last.camera = "left" THEN right_key_points
                                         ELSE expected, resolution_name_of(last.args[1]))

(***************************************************************************)
(* find_white_center called on points at and next to the edge of the       *)
(* region where the analysis window fits, on frames of several sizes       *)
(***************************************************************************)
\* the pixels <<x, y>> the loop of _find_line_intersection reads: those of
\* the window that pass its test against the image's size
intersection_reads(point, image, window_size) ==
    LET half_window == window_size \div 2
    IN  {xy \in ((point.x - half_window) .. (point.x - half_window + window_size - 1)) \X
                ((point.y - half_window) .. (point.y - half_window + window_size - 1)) :
            /\ 0 <= xy[1] /\ xy[1] < image.width
            /\ 0 <= xy[2] /\ xy[2] < image.height}

\* the pixels the loop of the fallback reads: all those of the window
centroid_reads(point, image, window_size) ==
    LET half_window == window_size \div 2
    IN  ((point.x - half_window) .. (point.x + half_window)) \X
        ((point.y - half_window) .. (point.y + half_window))

\* a call of find_white_center on the active camera's list: the window size
\* it computed (0 when it returned before), what _find_line_intersection
\* returned, the path that gave the result, the result, the pixels read
call_find_white_center(point_idx, image) ==
    /\ last' = Call("find_white_center", <<point_idx, image>>,
            IF point_idx < 0 \/ point_idx >= Len(key_points)
            THEN [window_size |-> 0, intersection |-> None, path |-> "none",
                  pos |-> None, reads |-> {}]
            ELSE LET current_point == key_points[point_idx + 1]
                     window_size == window_size_of(image)
                 IN  IF too_close_to_edge(current_point, image, window_size \div 2)
                     THEN [window_size |-> window_size, intersection |-> None,
                           path |-> "none", pos |-> None, reads |-> {}]
                     ELSE With(find_line_intersection(current_point, image, window_size),
                          LAMBDA intersection_point :
                            With(find_white_center(key_points, point_idx, image),
                            LAMBDA found :
                              [window_size |-> window_size,
                               intersection |-> intersection_point,
                               path |-> found.path, pos |-> found.pos,
                               reads |-> intersection_reads(current_point, image, window_size)
                                         \cup (IF intersection_point = None
                                               THEN centroid_reads(current_point, image,
                                                                   window_size)
                                               ELSE {})])))
    /\ emitted' = <<>>
    /\ clustering' = no_clustering
    /\ refinement' = no_refinement
    /\ UNCHANGED <<left_key_points, right_key_points, left_selected_point_idx,
                   right_selected_point_idx, active_camera, total_points, file, settings,
                   app_state, image_manager, simulation>>

\* frame sizes: window sizes 11, 13 (12 made odd), 17 and 33
WindowFrameSizes == {<<640, 480>>, <<700, 480>>, <<1024, 768>>, <<1920, 1080>>}

\* two lines that cross where the window first fits, and a single bright
\* pixel in the frame's last column and row
EdgeImage(size) ==
    LET half_window == window_size_of(BlankImage(size)) \div 2
    IN  Image(size[1], size[2], {half_window, half_window + 1},
              {half_window, half_window + 1},
              [xy \in {<<size[1] - 1, size[2] - 1>>} |-> 200])

WindowImages ==
    {EdgeImage(size) : size \in WindowFrameSizes} \cup
    {BlankImage(size) : size \in WindowFrameSizes}

\* points where the window just fits and just does not, at either corner
EdgePoints(size) ==
    LET half_window == window_size_of(BlankImage(size)) \div 2
    IN  {Pt(half_window, half_window), Pt(half_window - 1, half_window),
         Pt(half_window, half_window - 1),
         Pt(size[1] - half_window - 1, size[2] - half_window - 1),
         Pt(size[1] - half_window, size[2] - half_window - 1),
         Pt(size[1] - half_window - 1, size[2] - half_window)}

InitWindow ==
    /\ \E size \in WindowFrameSizes :
           \E p \in EdgePoints(size) :
               left_key_points = <<p, Pt(size[1] \div 2, size[2] \div 2)>>
    /\ right_key_points = <<>>
    /\ left_selected_point_idx = 1
    /\ right_selected_point_idx = -1
    /\ active_camera = "left"
    /\ total_points = TOTAL_POINTS
    /\ last = [op |-> "init", args |-> <<>>, ret |-> TRUE,
               len_before |-> 0, sel_before |-> -1, camera |-> "left"]
    /\ emitted = <<>>
    /\ clustering = no_clustering
    /\ refinement = no_refinement
    /\ file = NoFile
    /\ settings = initial_settings
    /\ app_state = initial_app_state
    /\ image_manager = initial_image_manager
    /\ simulation = initial_simulation

NextWindow ==
    \E point_idx \in -1 .. 2, image \in WindowImages :
        call_find_white_center(point_idx, image)

SpecWindow == InitWindow /\ [][NextWindow]_vars

\* the square window of the size, centred on the point, lies inside the image
WindowInside(point, image, window_size) ==
    /\ 0 <= point.x - window_size \div 2
    /\ 0 <= point.y - window_size \div 2
    /\ point.x + window_size \div 2 <= image.width - 1
    /\ point.y + window_size \div 2 <= image.height - 1

\* some pixel of the window is brighter than 180
BrightInWindow(point, image, window_size) ==
    \E x \in (point.x - window_size \div 2) .. (point.x + window_size \div 2),
       y \in (point.y - window_size \div 2) .. (point.y + window_size \div 2) :
        brightness_at(image, x, y) > 180

ClusterSizes(clusters) == [j \in 1 .. Len(clusters) |-> Len(clusters[j])]

\* C29: for every complete list of twelve points, coincident points and
\* clusters left empty by k-means included, every move of the rebalancing
\* loop found a cluster below its expected count to move to, the loop ends
\* with clusters of exactly 5, 3 and 4 points (so its exit for a missing
\* destination was not taken), and process_points stores exactly 12 points.
C29_RebalancingReachesExpectedCounts ==
    clustering.ran =>
        /\ \A k \in 1 .. Len(clustering.moves) :
               /\ MoveTargets(clustering.moves[k]) # {}
               /\ clustering.moves[k].to \in MoveTargets(clustering.moves[k])
        /\ ClusterSizes(clustering.adjusted) = expected_counts
        /\ Len(clustering.order) = TOTAL_POINTS
        /\ Len(key_points) = TOTAL_POINTS

C29_Witness ==
    /\ clustering.ran
    /\ \E j \in 1 .. 3 : clustering.sorted[j] = <<>>
    /\ Len(clustering.moves) >= 7
    /\ ClusterSizes(clustering.adjusted) = expected_counts

(***************************************************************************)
(* The active camera across refine_point_positions (specification          *)
(* SpecRefine)                                                             *)
(***************************************************************************)
\* the number of update_point calls made in a camera's rounds
Written(rounds) ==
    SumSeq([r \in 1 .. Len(rounds) |->
               Cardinality({i \in 1 .. Len(rounds[r].found) :
                               rounds[r].found[i].path # "none"})])

====
